---- MODULE Spec2Model ----
(***************************************************************************)
(* HOwDI: hydrogen network synthesis (hydrogen_model/create_graph.py),      *)
(* the MILP compiler (HOwDI/model/create_model.py and constraints/*.py)     *)
(* and the solver seen as a black box that may return any assignment of    *)
(* the decision variables that satisfies every compiled constraint.         *)
(*                                                                         *)
(* Quantities (tons, trucks, pipelines) are sampled at small integers.      *)
(* Percentages are integers over PctScale and every constraint that         *)
(* multiplies by a percentage is evaluated with both sides scaled.          *)
(***************************************************************************)
EXTENDS Integers, Sequences, FiniteSets, TLC

VARIABLES
    H,      \* the inputs: tables and settings (HydrogenData / hydrogen_inputs)
    g,      \* the network: networkx.DiGraph built by hydrogen_network
    m,      \* the compiled model: sets and parameters of the ConcreteModel
    sol,    \* the value of every decision variable of m
    todo,   \* the variable groups (nodes, arcs) the solver has not fixed yet
    pass,   \* add_converters: the rule in progress and its loop variables
    out,    \* the output tables and the per-hub dictionary made from them
    pc      \* position in the pipeline

vars == <<H, g, m, sol, todo, pass, out, pc>>

----------------------------------------------------------------------------
(* Bounds of the exploration                                               *)

\* largest value tried for a continuous variable (tons per day, CHECs)
MaxQty == 1
\* largest value tried for dist_capacity (number of pipelines or trucks)
MaxCap == 1
\* largest value tried for the CO2 captured by a retrofit (tons per day)
MaxCO2 == 2
\* largest road length of an inter-hub record (km)
MaxKm == 1

----------------------------------------------------------------------------
(* Program constants                                                       *)

\* flowLimit_tonsPerDay of the free intra-hub arcs: 99999999.9, whole tons
FlowUnlimited == 99999999
\* flowLimit_tonsPerDay of the liquefied-truck demand arcs: 8.0
FlowTruckLiquefied == 8
\* flowLimit_tonsPerDay of a producer's arc: 999999.999, whole tons
FlowFromProducer == 999999
\* denominator of every percentage of the model
PctScale == 100

----------------------------------------------------------------------------
(* Python and networkx primitives                                          *)

\* dict.get(key, default)
Get(attrs, key, default) == IF key \in DOMAIN attrs THEN attrs[key] ELSE default

\* Python's `sub in s` on strings
Contains(sub, s) ==
    \E i \in 1..(Len(s) - Len(sub) + 1) : SubSeq(s, i, i + Len(sub) - 1) = sub

\* s.replace(old, ""): every occurrence of old, from the left, is removed
RECURSIVE Remove(_, _)
Remove(s, old) ==
    IF Len(s) < Len(old) THEN s
    ELSE IF SubSeq(s, 1, Len(old)) = old THEN Remove(SubSeq(s, Len(old) + 1, Len(s)), old)
    ELSE SubSeq(s, 1, 1) \o Remove(SubSeq(s, 2, Len(s)), old)

\* dict.update: the keys of new override those of old
Update(old, new) ==
    [k \in DOMAIN old \cup DOMAIN new |-> IF k \in DOMAIN new THEN new[k] ELSE old[k]]

SeqToSet(s) == {s[i] : i \in 1..Len(s)}

NoAttrs == [x \in {} |-> 0]

\* networkx.DiGraph(): an empty graph; nodes and edges keep insertion order
EmptyGraph == [nodes |-> <<>>, ndata |-> NoAttrs, edges |-> <<>>, edata |-> NoAttrs]

\* the calls a builder makes on the graph, in order
add_node(n, attrs) == <<[op |-> "node", n |-> n, attrs |-> attrs]>>
add_edge(u, v, attrs) == <<[op |-> "edge", u |-> u, v |-> v, attrs |-> attrs]>>

\* the elements of s without repetition, in the order of their first occurrence
FirstOccurrences(s) ==
    LET first == {i \in 1..Len(s) : \A j \in 1..(i - 1) : s[j] # s[i]}
    IN  [k \in 1..Cardinality(first) |->
            s[CHOOSE i \in first : Cardinality({j \in first : j <= i}) = k]]

\* the attributes left by the calls of ops with index in I: a later call
\* overrides the keys it gives and keeps the others
Merged(ops, I) ==
    LET keys == UNION {DOMAIN ops[i].attrs : i \in I}
        last(k) == CHOOSE i \in I : /\ k \in DOMAIN ops[i].attrs
                                   /\ \A j \in I : j > i => k \notin DOMAIN ops[j].attrs
    IN  [k \in keys |-> ops[last(k)].attrs[k]]

\* the DiGraph after the calls ops on an empty graph: add_node(n, **attrs)
\* creates or updates n; add_edge(u, v, **attrs) creates or updates the arc and
\* creates the endpoints it misses, without attributes
DiGraph(ops) ==
    LET touched == [k \in 1..(2 * Len(ops)) |->
                       LET c == ops[(k + 1) \div 2]
                       IN  IF c.op = "node" THEN c.n ELSE IF k % 2 = 1 THEN c.u ELSE c.v]
        edgeCalls == {i \in 1..Len(ops) : ops[i].op = "edge"}
        arcs == [k \in 1..Len(ops) |->
                    IF k \in edgeCalls THEN <<ops[k].u, ops[k].v>> ELSE <<>>]
        nodes == FirstOccurrences(touched)
        edges == SelectSeq(FirstOccurrences(arcs), LAMBDA e : e # <<>>)
    IN  [nodes |-> nodes,
         ndata |-> [n \in SeqToSet(nodes) |->
                      Merged(ops, {i \in 1..Len(ops) : ops[i].op = "node" /\ ops[i].n = n})],
         edges |-> edges,
         edata |-> [e \in SeqToSet(edges) |->
                      Merged(ops, {i \in edgeCalls : <<ops[i].u, ops[i].v>> = e})]]

\* DiGraph.in_edges(n) and DiGraph.out_edges(n)
in_edges(G, n) == {e \in DOMAIN G.edata : e[2] = n}
out_edges(G, n) == {e \in DOMAIN G.edata : e[1] = n}

\* sum of f over a finite set S
RECURSIVE SumOver(_, _)
SumOver(f, S) ==
    IF S = {} THEN 0
    ELSE LET x == CHOOSE y \in S : TRUE IN f[x] + SumOver(f, S \ {x})

----------------------------------------------------------------------------
(* Model compiler: sets (create_model.py)                                  *)

NodeClass(G, n) == G.ndata[n]["class"]

\* no set rule and no constraint rule raises on what it indexes directly: a
\* class of None is a TypeError in the class filters, a fuel station that is
\* no converter is a KeyError on conv_capacity, a node flagged existing
\* that is not a producer is a KeyError on the producers' variables, min_h2,
\* max_h2 and capacity_tonPerDay are read with g.nodes[node][...]
attributes_indexed(G) ==
    /\ \A n \in DOMAIN G.ndata : "class" \in DOMAIN G.ndata[n]
    /\ \A n \in DOMAIN G.ndata :
          Contains("fuelDispenser", NodeClass(G, n)) => Contains("converter", NodeClass(G, n))
    /\ \A n \in DOMAIN G.ndata :
          Get(G.ndata[n], "existing", 0) = 1 => NodeClass(G, n) = "producer"
    /\ \A n \in DOMAIN G.ndata :
          (NodeClass(G, n) = "producer" /\ Get(G.ndata[n], "existing", 0) # 1)
              => {"min_h2", "max_h2"} \subseteq DOMAIN G.ndata[n]
    /\ \A n \in DOMAIN G.ndata :
          Get(G.ndata[n], "existing", 0) = 1 => "capacity_tonPerDay" \in DOMAIN G.ndata[n]

\* the arcs whose units rule_truckCapacityConsistency counts at a truck node
\* (the filters read the names of the nodes)
trucks_counted(G, truck_dist_center) ==
    {e \in in_edges(G, truck_dist_center) : Contains("converter", e[1])}
    \cup {e \in out_edges(G, truck_dist_center) :
             \/ Contains("converter", e[2])
             \/ Contains("dist", e[2])
             \/ Contains("demand", e[2])}

\* no constraint rule returns a Python bool: pe.Constraint raises ValueError
\* when the expression of an index holds no variable (an empty sum is 0, a
\* variable times a coefficient 0 is 0)
constraints_nontrivial(G, HH) ==
    LET N == DOMAIN G.ndata
        producers == {n \in N : NodeClass(G, n) = "producer"}
        existing == {n \in N : Get(G.ndata[n], "existing", 0) = 1}
        consumers == {n \in N : \/ Contains("demandSector", NodeClass(G, n))
                                \/ NodeClass(G, n) = "price"}
        rate(n) == Get(G.ndata[n], "co2_emissions_per_h2_tons", 0)
    IN  \* rule_flowBalance: 0 == 0.0 at a plain node without arcs
        /\ \A n \in N \ (producers \cup consumers) :
              in_edges(G, n) \cup out_edges(G, n) # {}
        \* rule_truckCapacityConsistency: 0 - 0 == 0
        /\ \A n \in N : Contains("dist_truck", NodeClass(G, n)) => trucks_counted(G, n) # {}
        \* rule_flowCapacityConverters: 0 <= conv_capacity * 0
        /\ \A n \in N :
              (Contains("converter", NodeClass(G, n)) /\ out_edges(G, n) = {})
                  => Get(G.ndata[n], "utilization", 0) # 0
        \* rule_ccs1CapacityRelationship, rule_ccs2CapacityRelationship: 0 == 0
        /\ \A n \in existing :
              /\ ~(Get(G.ndata[n], "can_ccs1", 0) = 0
                      /\ (rate(n) = 0 \/ HH.ccs1_percent_co2_captured = 0))
              /\ ~(Get(G.ndata[n], "can_ccs2", 0) = 0
                      /\ (rate(n) = 0 \/ HH.ccs2_percent_co2_captured = 0))
        \* rule_checsBalance: 0 <= 0 without producers and consumers
        /\ producers \cup consumers # {}

\* build_h2_model reaches solver.solve
Compilable(G, HH) == attributes_indexed(G) /\ constraints_nontrivial(G, HH)

create_node_sets(G) ==
    LET N == DOMAIN G.ndata
        producer_set == {n \in N : NodeClass(G, n) = "producer"}
        existing_producers == {n \in N : Get(G.ndata[n], "existing", 0) = 1}
        new_producers == producer_set \ existing_producers
        thermal_producers == {n \in N : Get(G.ndata[n], "prod_tech_type", "") = "thermal"}
        new_thermal_producers == new_producers \cap thermal_producers
    IN  [ node_set               |-> N,
          producer_set           |-> producer_set,
          existing_producers     |-> existing_producers,
          new_producers          |-> new_producers,
          thermal_producers      |-> thermal_producers,
          new_thermal_producers  |-> new_thermal_producers,
          new_electric_producers |-> new_producers \ new_thermal_producers,
          consumer_set           |-> {n \in N : \/ Contains("demandSector", NodeClass(G, n))
                                                \/ NodeClass(G, n) = "price"},
          converter_set          |-> {n \in N : Contains("converter", NodeClass(G, n))},
          fuelStation_set        |-> {n \in N : Contains("fuelDispenser", NodeClass(G, n))},
          truck_set              |-> {n \in N : Contains("dist_truck", NodeClass(G, n))} ]

create_arc_sets(G) ==
    LET E == DOMAIN G.edata
    IN  [ arc_set                       |-> E,
          \* class_type != None
          distribution_arcs             |-> {e \in E : "class" \in DOMAIN G.edata[e]},
          \* already_exists == True
          distribution_arc_existing_set |-> {e \in E : Get(G.edata[e], "existing", 0) = 1},
          consumer_arc_set              |-> {e \in E : Get(G.edata[e], "class", "") = "flow_to_demand_sector"},
          converter_arc_set             |-> {e \in E : \/ Contains("converter", NodeClass(G, e[1]))
                                                      \/ Contains("converter", NodeClass(G, e[2]))} ]

(* Model compiler: parameters (create_params)                               *)

\* dict.get(key) without a default: <<value>>, or <<>> for None
GetOrNone(attrs, key) == IF key \in DOMAIN attrs THEN <<attrs[key]>> ELSE <<>>

create_params(G, S, A) ==
    LET arc(key)     == [e \in A.distribution_arcs |-> Get(G.edata[e], key, 0)]
        node(I, key) == [n \in I |-> Get(G.ndata[n], key, 0)]
    IN  [ dist_cost_capital    |-> arc("capital_usdPerUnit"),
          dist_cost_fixed      |-> arc("fixed_usdPerUnitPerDay"),
          dist_cost_variable   |-> arc("variable_usdPerTon"),
          dist_flowLimit       |-> arc("flowLimit_tonsPerDay"),
          prod_cost_capital    |-> node(S.producer_set, "capital_usdPerTonPerDay"),
          prod_cost_fixed      |-> node(S.producer_set, "fixed_usdPerTon"),
          prod_e_price         |-> node(S.producer_set, "e_price"),
          prod_ng_price        |-> node(S.producer_set, "ng_price"),
          prod_cost_variable   |-> node(S.producer_set, "variable_usdPerTon"),
          co2_emissions_rate   |-> node(S.producer_set, "co2_emissions_per_h2_tons"),
          grid_intensity       |-> [n \in S.new_electric_producers |->
                                       GetOrNone(G.ndata[n], "grid_intensity_tonsCO2_per_h2")],
          prod_utilization     |-> node(S.producer_set, "utilization"),
          chec_per_ton         |-> node(S.new_producers, "chec_per_ton"),
          ccs_capture_rate     |-> node(S.new_thermal_producers, "ccs_capture_rate"),
          h2_tax_credit        |-> node(S.new_producers, "h2_tax_credit"),
          conv_cost_capital    |-> node(S.converter_set, "capital_usdPerTonPerDay"),
          conv_cost_fixed      |-> node(S.converter_set, "fixed_usdPerTonPerDay"),
          conv_e_price         |-> node(S.converter_set, "e_price"),
          conv_cost_variable   |-> node(S.converter_set, "variable_usdPerTon"),
          conv_utilization     |-> node(S.converter_set, "utilization"),
          cons_price           |-> node(S.consumer_set, "breakevenPrice"),
          cons_size            |-> node(S.consumer_set, "size"),
          cons_carbonSensitive |-> node(S.consumer_set, "carbonSensitive"),
          avoided_emissions    |-> node(S.consumer_set, "avoided_emissions_tonsCO2_per_H2"),
          can_ccs1             |-> node(S.producer_set, "can_ccs1"),
          can_ccs2             |-> node(S.producer_set, "can_ccs2") ]

\* the ConcreteModel after create_node_sets, create_arc_sets and create_params
CompiledModel(G) ==
    LET S == create_node_sets(G)
        A == create_arc_sets(G)
    IN  Update(Update(S, A), create_params(G, S, A))

(* Model compiler: decision variables (create_variables), all at zero      *)
create_variables(M) ==
    LET Z(S) == [x \in S |-> 0]
    IN  [ dist_capacity     |-> Z(M.arc_set),
          dist_h            |-> Z(M.arc_set),
          prod_exists       |-> Z(M.producer_set),
          prod_capacity     |-> Z(M.producer_set),
          prod_h            |-> Z(M.producer_set),
          conv_capacity     |-> Z(M.converter_set),
          cons_h            |-> Z(M.consumer_set),
          cons_checs        |-> Z(M.consumer_set),
          ccs1_built        |-> Z(M.existing_producers),
          ccs2_built        |-> Z(M.existing_producers),
          ccs1_co2_captured |-> Z(M.existing_producers),
          ccs2_co2_captured |-> Z(M.existing_producers),
          ccs1_capacity_h2  |-> Z(M.existing_producers),
          ccs2_capacity_h2  |-> Z(M.existing_producers),
          prod_checs        |-> Z(M.new_producers),
          ccs1_checs        |-> Z(M.existing_producers),
          ccs2_checs        |-> Z(M.existing_producers),
          fuelStation_cost_capital_subsidy |-> Z(M.fuelStation_set) ]

----------------------------------------------------------------------------
(* Constraints (HOwDI/model/constraints).  Each rule is the constraint of   *)
(* one index under the assignment s.  D holds the nodes and arcs whose     *)
(* variables are fixed: a rule is enforced once everything it reads is in D *)

Fixed(D, ns, as) == ns \subseteq D.nodes /\ as \subseteq D.arcs

Everything(M) == [nodes |-> M.node_set, arcs |-> M.arc_set]

(* mass_conservation.py *)

\* rule_flowBalance with the balance of the low-purity demand nodes left out
rule_flowBalanceNotAtDemand(M, G, s, node) ==
    LET expr == SumOver(s.dist_h, in_edges(G, node)) - SumOver(s.dist_h, out_edges(G, node))
    IN  IF node \in M.producer_set THEN s.prod_h[node] + expr = 0
        ELSE IF node \in M.consumer_set THEN expr - s.cons_h[node] = 0
        ELSE G.ndata[node]["class"] = "demand_lowPurity" \/ expr = 0

rule_flowBalance(M, G, s, node) ==
    LET expr == SumOver(s.dist_h, in_edges(G, node)) - SumOver(s.dist_h, out_edges(G, node))
    IN  IF node \in M.producer_set THEN s.prod_h[node] + expr = 0
        ELSE IF node \in M.consumer_set THEN expr - s.cons_h[node] = 0
        ELSE expr = 0

\* rule_truckCapacityConsistency as an inequality: trucks may stay at the depot
rule_truckCapacityAtLeast(M, G, s, truck_dist_center) ==
    LET in_trucks == SumOver(s.dist_capacity, in_edges(G, truck_dist_center))
        out_trucks == SumOver(s.dist_capacity, out_edges(G, truck_dist_center))
    IN  in_trucks - out_trucks >= 0

rule_truckCapacityConsistency(M, G, s, truck_dist_center) ==
    LET in_trucks == SumOver(s.dist_capacity,
                        {e \in in_edges(G, truck_dist_center) : Contains("converter", e[1])})
        out_trucks == SumOver(s.dist_capacity,
                        {e \in out_edges(G, truck_dist_center) :
                            \/ Contains("converter", e[2])
                            \/ Contains("dist", e[2])
                            \/ Contains("demand", e[2])})
    IN  in_trucks - out_trucks = 0

rule_consumerSize(M, s, node) == s.cons_h[node] <= M.cons_size[node]

apply_mass_conservation(M, G, s, D) ==
    /\ \A node \in M.node_set :
          Fixed(D, {node}, in_edges(G, node) \cup out_edges(G, node))
              => rule_flowBalance(M, G, s, node)
    /\ \A node \in M.truck_set :
          Fixed(D, {}, in_edges(G, node) \cup out_edges(G, node))
              => rule_truckCapacityConsistency(M, G, s, node)
    /\ \A node \in M.consumer_set :
          Fixed(D, {node}, {}) => rule_consumerSize(M, s, node)

(* capacity_relationships.py *)

\* rule_flowCapacity that forgets the number of units built
rule_flowCapacityNoUnits(M, s, arc) ==
    s.dist_h[arc] <= M.dist_flowLimit[arc]

rule_flowCapacity(M, s, arc) ==
    s.dist_h[arc] <= s.dist_capacity[arc] * M.dist_flowLimit[arc]

rule_flowCapacityConverters(M, G, s, converterNode) ==
    LET flow_out == SumOver(s.dist_h, out_edges(G, converterNode))
    IN  flow_out * PctScale <= s.conv_capacity[converterNode] * M.conv_utilization[converterNode]

rule_productionCapacity(M, s, node) ==
    s.prod_h[node] * PctScale <= s.prod_capacity[node] * M.prod_utilization[node]

rule_minProductionCapacity(G, s, node) ==
    s.prod_capacity[node] >= G.ndata[node]["min_h2"] * s.prod_exists[node]

\* rule_maxProductionCapacity without the existence binary
rule_maxProductionCapacityUnbuilt(G, s, node) ==
    s.prod_capacity[node] <= G.ndata[node]["max_h2"]

rule_maxProductionCapacity(G, s, node) ==
    s.prod_capacity[node] <= G.ndata[node]["max_h2"] * s.prod_exists[node]

apply_capacity_relationships(M, G, s, D) ==
    /\ \A arc \in M.distribution_arcs :
          Fixed(D, {}, {arc}) => rule_flowCapacity(M, s, arc)
    /\ \A node \in M.converter_set :
          Fixed(D, {node}, out_edges(G, node)) => rule_flowCapacityConverters(M, G, s, node)
    /\ \A node \in M.producer_set :
          Fixed(D, {node}, {}) => rule_productionCapacity(M, s, node)
    /\ \A node \in M.new_producers :
          Fixed(D, {node}, {}) => rule_minProductionCapacity(G, s, node)
    /\ \A node \in M.new_producers :
          Fixed(D, {node}, {}) => rule_maxProductionCapacity(G, s, node)

(* existing_infrastructure.py *)

rule_flowCapacityExisting(G, s, arc) == s.dist_capacity[arc] >= G.edata[arc]["existing"]

rule_forceExistingProduction(s, node) == s.prod_exists[node] = 1

\* rule_productionCapacityExisting as an upper bound only
rule_productionCapacityExistingAtMost(G, s, node) ==
    s.prod_capacity[node] <= G.ndata[node]["capacity_tonPerDay"]

rule_productionCapacityExisting(G, s, node) ==
    s.prod_capacity[node] = G.ndata[node]["capacity_tonPerDay"]

\* rule_onlyOneCCS that lets both technologies be built
rule_onlyOneCCSBoth(s, node) == s.ccs1_built[node] + s.ccs2_built[node] <= 2

rule_onlyOneCCS(s, node) == s.ccs1_built[node] + s.ccs2_built[node] <= 1

rule_ccs1CapacityRelationship(M, HH, s, node) ==
    s.ccs1_co2_captured[node] * M.can_ccs1[node] * PctScale
        = s.ccs1_capacity_h2[node] * M.co2_emissions_rate[node] * HH.ccs1_percent_co2_captured

rule_ccs2CapacityRelationship(M, HH, s, node) ==
    s.ccs2_co2_captured[node] * M.can_ccs2[node] * PctScale
        = s.ccs2_capacity_h2[node] * M.co2_emissions_rate[node] * HH.ccs2_percent_co2_captured

\* rule_mustBuildAllCCS1 that lets the retrofit cover part of the output
rule_mustBuildPartCCS1(s, node) == s.ccs1_capacity_h2[node] <= s.ccs1_built[node] * s.prod_h[node]

rule_mustBuildAllCCS1(s, node) == s.ccs1_capacity_h2[node] = s.ccs1_built[node] * s.prod_h[node]

rule_mustBuildAllCCS2(s, node) == s.ccs2_capacity_h2[node] = s.ccs2_built[node] * s.prod_h[node]

apply_existing_infrastructure_constraints(M, G, HH, s, D) ==
    /\ \A arc \in M.distribution_arc_existing_set :
          Fixed(D, {}, {arc}) => rule_flowCapacityExisting(G, s, arc)
    /\ \A node \in M.existing_producers :
          Fixed(D, {node}, {}) =>
              /\ rule_forceExistingProduction(s, node)
              /\ rule_productionCapacityExisting(G, s, node)
              /\ rule_onlyOneCCS(s, node)
              /\ rule_ccs1CapacityRelationship(M, HH, s, node)
              /\ rule_ccs2CapacityRelationship(M, HH, s, node)
              /\ rule_mustBuildAllCCS1(s, node)
              /\ rule_mustBuildAllCCS2(s, node)

(* checs.py *)

\* rule_ccs1Checs that ignores the fractional flag
rule_ccs1ChecsWhole(HH, s, node) == s.ccs1_checs[node] <= s.ccs1_capacity_h2[node]

rule_ccs1Checs(HH, s, node) ==
    IF HH.fractional_chec
    THEN s.ccs1_checs[node] * PctScale <= s.ccs1_capacity_h2[node] * HH.ccs1_percent_co2_captured
    ELSE s.ccs1_checs[node] <= s.ccs1_capacity_h2[node]

rule_ccs2Checs(HH, s, node) ==
    IF HH.fractional_chec
    THEN s.ccs2_checs[node] * PctScale <= s.ccs2_capacity_h2[node] * HH.ccs2_percent_co2_captured
    ELSE s.ccs2_checs[node] <= s.ccs2_capacity_h2[node]

rule_productionChec(M, s, node) ==
    s.prod_checs[node] * PctScale = s.prod_h[node] * M.chec_per_ton[node]

rule_consumerChecs(M, s, node) ==
    s.cons_checs[node] = s.cons_h[node] * M.cons_carbonSensitive[node]

rule_checsBalance(M, s) ==
    LET checs_produced == SumOver(s.prod_checs, M.new_producers)
                          + SumOver(s.ccs1_checs, M.existing_producers)
                          + SumOver(s.ccs2_checs, M.existing_producers)
        checs_consumed == SumOver(s.cons_checs, M.consumer_set)
    IN  checs_consumed <= checs_produced

apply_CHECs(M, HH, s, D) ==
    /\ \A node \in M.existing_producers : Fixed(D, {node}, {}) => rule_ccs1Checs(HH, s, node)
    /\ \A node \in M.existing_producers : Fixed(D, {node}, {}) => rule_ccs2Checs(HH, s, node)
    /\ \A node \in M.new_producers : Fixed(D, {node}, {}) => rule_productionChec(M, s, node)
    /\ \A node \in M.consumer_set : Fixed(D, {node}, {}) => rule_consumerChecs(M, s, node)
    /\ Fixed(D, M.node_set, {}) => rule_checsBalance(M, s)

(* subsidies.py *)

rule_subsidyConverter(M, HH, s, node) ==
    LET conversion_cost == s.conv_capacity[node] * M.conv_cost_capital[node]
    IN  s.fuelStation_cost_capital_subsidy[node] * PctScale
            = conversion_cost * (PctScale - HH.subsidy_cost_share_fraction)

apply_subsidy_constraints(M, HH, s, D) ==
    \A node \in M.fuelStation_set : Fixed(D, {node}, {}) => rule_subsidyConverter(M, HH, s, node)

(* create_model.py: apply_constraints *)
apply_constraints(M, G, HH, s, D) ==
    /\ apply_mass_conservation(M, G, s, D)
    /\ apply_existing_infrastructure_constraints(M, G, HH, s, D)
    /\ apply_capacity_relationships(M, G, s, D)
    /\ apply_CHECs(M, HH, s, D)
    /\ apply_subsidy_constraints(M, HH, s, D)

(* create_model.py: obj_rule, the credit for CO2 captured by retrofits *)
U_carbon_capture_credit_retrofit(M, HH, s) ==
    SumOver([p \in M.existing_producers |-> s.ccs1_co2_captured[p] + s.ccs2_co2_captured[p]],
            M.existing_producers) * HH.carbon_capture_credit

(* Objective (obj_rule).  A term without a fraction is in dollars, a term   *)
(* with one percentage is in hundredths of a dollar, and a capital term is *)
(* the sum that the code divides by A and time_slices.  obj_rule brings    *)
(* them to the common unit of 1 / ObjScale dollars.                        *)

ObjScale(HH) == PctScale * HH.A * HH.time_slices

\* x dollars
Dollars(HH, x) == x * ObjScale(HH)

\* x hundredths of a dollar
Hundredths(HH, x) == x * HH.A * HH.time_slices

\* x / H.A / H.time_slices * (1 + H.fixedcost_percent)
Amortized(HH, x) == x * (PctScale + HH.fixedcost_percent)

U_hydrogen(M, s) ==
    SumOver([c \in M.consumer_set |-> s.cons_h[c] * M.cons_price[c]], M.consumer_set)

\* in hundredths: ccs_capture_rate is a percentage
U_carbon_capture_credit_new(M, HH, s) ==
    SumOver([p \in M.new_thermal_producers |->
                s.prod_h[p] * HH.baseSMR_CO2_per_H2_tons * M.ccs_capture_rate[p]],
            M.new_thermal_producers)
    * HH.carbon_capture_credit

U_h2_tax_credit(M, s) ==
    SumOver([p \in M.new_producers |-> s.prod_h[p] * M.h2_tax_credit[p]], M.new_producers)

U_h2_tax_credit_retrofit_ccs(M, HH, s) ==
    SumOver([p \in M.existing_producers |->
                s.ccs1_capacity_h2[p] * HH.ccs1_h2_tax_credit
                + s.ccs2_capacity_h2[p] * HH.ccs2_h2_tax_credit],
            M.existing_producers)

U_carbon(M, HH, s) ==
    SumOver([c \in M.consumer_set |-> s.cons_h[c] * M.avoided_emissions[c]], M.consumer_set)
    * HH.carbon_price

P_variable(M, s) ==
    SumOver([p \in M.producer_set |-> s.prod_h[p] * M.prod_cost_variable[p]], M.producer_set)

P_electricity(M, s) ==
    SumOver([p \in M.producer_set |-> s.prod_h[p] * M.prod_e_price[p]], M.producer_set)

P_naturalGas(M, s) ==
    SumOver([p \in M.producer_set |-> s.prod_h[p] * M.prod_ng_price[p]], M.producer_set)

\* before amortization
P_capital(M, s) ==
    SumOver([p \in M.producer_set |-> s.prod_capacity[p] * M.prod_cost_capital[p]], M.producer_set)

\* in hundredths: (1 - ccs percent captured) is PctScale - percent
P_carbon(M, HH, s) ==
    ( SumOver([p \in M.new_producers |-> s.prod_h[p] * M.co2_emissions_rate[p]], M.new_producers)
          * PctScale
      + SumOver([p \in M.existing_producers |-> s.ccs1_capacity_h2[p] * M.co2_emissions_rate[p]],
                M.existing_producers)
          * (PctScale - HH.ccs1_percent_co2_captured)
      + SumOver([p \in M.existing_producers |-> s.ccs2_capacity_h2[p] * M.co2_emissions_rate[p]],
                M.existing_producers)
          * (PctScale - HH.ccs2_percent_co2_captured) )
    * HH.carbon_price

CCS_variable(M, HH, s) ==
    SumOver([p \in M.existing_producers |->
                s.ccs1_co2_captured[p] * HH.ccs1_variable_usdPerTon
                + s.ccs2_co2_captured[p] * HH.ccs2_variable_usdPerTon],
            M.existing_producers)

D_variable(M, s) ==
    SumOver([d \in M.distribution_arcs |-> s.dist_h[d] * M.dist_cost_variable[d]],
            M.distribution_arcs)

\* before amortization
D_capital(M, s) ==
    SumOver([d \in M.distribution_arcs |-> s.dist_capacity[d] * M.dist_cost_capital[d]],
            M.distribution_arcs)

\* in hundredths: conv_utilization is a percentage
CV_variable(M, s) ==
    SumOver([cv \in M.converter_set |->
                s.conv_capacity[cv] * M.conv_utilization[cv] * M.conv_cost_variable[cv]],
            M.converter_set)

\* in hundredths: conv_utilization is a percentage
CV_electricity(M, s) ==
    SumOver([cv \in M.converter_set |->
                s.conv_capacity[cv] * M.conv_utilization[cv] * M.conv_e_price[cv]],
            M.converter_set)

\* before amortization
CV_capital(M, s) ==
    SumOver([cv \in M.converter_set |-> s.conv_capacity[cv] * M.conv_cost_capital[cv]],
            M.converter_set)

\* totalSurplus, in units of 1 / ObjScale(HH) dollars
obj_rule(M, HH, s) ==
    Dollars(HH, U_hydrogen(M, s))
    + Hundredths(HH, U_carbon_capture_credit_new(M, HH, s))
    + Dollars(HH, U_carbon_capture_credit_retrofit(M, HH, s))
    + Dollars(HH, U_h2_tax_credit(M, s))
    + Dollars(HH, U_h2_tax_credit_retrofit_ccs(M, HH, s))
    - Dollars(HH, P_variable(M, s))
    - Dollars(HH, P_electricity(M, s))
    - Dollars(HH, P_naturalGas(M, s))
    - Amortized(HH, P_capital(M, s))
    - Hundredths(HH, P_carbon(M, HH, s))
    - Dollars(HH, CCS_variable(M, HH, s))
    - Dollars(HH, D_variable(M, s))
    - Amortized(HH, D_capital(M, s))
    - Hundredths(HH, CV_variable(M, s))
    - Hundredths(HH, CV_electricity(M, s))
    - Amortized(HH, CV_capital(M, s))

\* the assignment s satisfies every constraint of the compiled model
Feasible(M, G, HH, s) == apply_constraints(M, G, HH, s, Everything(M))

----------------------------------------------------------------------------
(* Inputs: the tables and settings of HydrogenData that the synthesizer,    *)
(* the constraints and the objective read                                   *)

\* a table row read from a file that lacks the column key
Without(attrs, key) == [k \in DOMAIN attrs \ {key} |-> attrs[k]]

\* the settings the constraints and the objective read from H
Settings(fractional_chec, find_prices) ==
    [fractional_chec |-> fractional_chec, find_prices |-> find_prices,
     ccs1_percent_co2_captured |-> 50, ccs2_percent_co2_captured |-> 100,
     subsidy_cost_share_fraction |-> 0, carbon_capture_credit |-> 1,
     carbon_price |-> 1, baseSMR_CO2_per_H2_tons |-> 2, A |-> 2, time_slices |-> 1,
     fixedcost_percent |-> 2, ccs1_h2_tax_credit |-> 0, ccs2_h2_tax_credit |-> 1,
     ccs1_variable_usdPerTon |-> 1, ccs2_variable_usdPerTon |-> 1]

----------------------------------------------------------------------------
(* The solver.  It fixes the variables group by group, a node or an arc at  *)
(* a time, keeps a choice only if no constraint over fixed variables is     *)
(* broken, and returns once every group is fixed and every constraint       *)
(* holds.  The assignments it can return are the feasible ones within the   *)
(* bounds in which an arc that only its flow limit constrains has no idle   *)
(* unit.                                                                    *)

\* the out-arcs of n in the order of g.edges
OutSeq(G, n) == SelectSeq(G.edges, LAMBDA e : e[1] = n)

\* the nodes outside seen that an arc from frontier enters, in the order of g.nodes
Successors(G, seen, frontier) ==
    SelectSeq(G.nodes, LAMBDA n : n \notin seen /\ \E u \in frontier : <<u, n>> \in DOMAIN G.edata)

\* the nodes in the order the hydrogen reaches them from frontier, then the others
RECURSIVE Downstream(_, _, _)
Downstream(G, seen, frontier) ==
    IF frontier = <<>> THEN SelectSeq(G.nodes, LAMBDA n : n \notin seen)
    ELSE LET reached == seen \cup SeqToSet(frontier)
         IN  frontier \o Downstream(G, reached, Successors(G, reached, SeqToSet(frontier)))

\* every node of nodes, each followed by its out-arcs
RECURSIVE GroupsFrom(_, _)
GroupsFrom(G, nodes) ==
    IF nodes = <<>> THEN <<>>
    ELSE <<(<<Head(nodes)>>)>> \o OutSeq(G, Head(nodes)) \o GroupsFrom(G, Tail(nodes))

\* the groups the solver fixes, producers first
SolveOrder(G, M) ==
    GroupsFrom(G, Downstream(G, {}, SelectSeq(G.nodes, LAMBDA n : n \in M.producer_set)))

\* the fewest units of arc a that carry h
FewestUnits(M, a, h) ==
    {c \in 0..MaxCap :
        /\ h <= c * M.dist_flowLimit[a]
        /\ \A d \in 0..MaxCap : h <= d * M.dist_flowLimit[a] => c <= d}

\* the numbers of units tried on arc a when it carries h: any number on an
\* existing pipeline and on an arc whose units a truck node counts, the fewest
\* that carry h on another distribution arc, none on an arc without class
Units(M, G, a, h) ==
    IF a \notin M.distribution_arcs THEN {0}
    ELSE IF \/ a \in M.distribution_arc_existing_set
            \/ \E n \in M.truck_set : a \in trucks_counted(G, n)
         THEN 0..MaxCap
         ELSE FewestUnits(M, a, h)

\* the balance of node can still be met by the flows that are not fixed:
\* a variable that is not fixed is at zero and may rise to MaxQty
flowBalance_open(M, G, s, D, node) ==
    LET produces == node \in M.producer_set
        consumes == node \notin M.producer_set /\ node \in M.consumer_set
        inflow == SumOver(s.dist_h, in_edges(G, node)) + (IF produces THEN s.prod_h[node] ELSE 0)
        outflow == SumOver(s.dist_h, out_edges(G, node)) + (IF consumes THEN s.cons_h[node] ELSE 0)
        open_in == Cardinality(in_edges(G, node) \ D.arcs)
                   + (IF produces /\ node \notin D.nodes THEN 1 ELSE 0)
        open_out == Cardinality(out_edges(G, node) \ D.arcs)
                    + (IF consumes /\ node \notin D.nodes THEN 1 ELSE 0)
    IN  inflow <= outflow + MaxQty * open_out /\ outflow <= inflow + MaxQty * open_in

\* the trucks of a depot can still be matched by the units that are not fixed
truckCapacity_open(M, G, s, D, truck_dist_center) ==
    LET counted == trucks_counted(G, truck_dist_center)
        counted_in == counted \cap in_edges(G, truck_dist_center)
        counted_out == counted \ counted_in
        in_trucks == SumOver(s.dist_capacity, counted_in)
        out_trucks == SumOver(s.dist_capacity, counted_out)
    IN  /\ in_trucks <= out_trucks + MaxCap * Cardinality(counted_out \ D.arcs)
        /\ out_trucks <= in_trucks + MaxCap * Cardinality(counted_in \ D.arcs)

\* the bounding step of the solver: at a node that has variables left, no
\* balance is already out of reach (a node with none left is for the rules)
Promising(M, G, s, D) ==
    /\ \A node \in M.node_set :
          ~Fixed(D, {node}, in_edges(G, node) \cup out_edges(G, node))
              => flowBalance_open(M, G, s, D, node)
    /\ \A node \in M.truck_set :
          ~Fixed(D, {}, in_edges(G, node) \cup out_edges(G, node))
              => truckCapacity_open(M, G, s, D, node)

\* the nodes and arcs whose variables are fixed when the groups in t are left
FixedAfter(M, t) ==
    [nodes |-> {n \in M.node_set : \A i \in 1..Len(t) : t[i] # <<n>>},
     arcs  |-> {a \in M.arc_set : \A i \in 1..Len(t) : t[i] # a}]

\* f with the value v at x, if f has a variable for x
Put(f, x, v) == IF x \in DOMAIN f THEN [f EXCEPT ![x] = v] ELSE f

\* the values tried for a variable indexed by S at x: 0..hi if x is in S
Dom(S, x, hi) == IF x \in S THEN 0..hi ELSE {0}

\* build_h2_model(H, g) up to solver.solve
Compile ==
    /\ pc = "returned"
    /\ Compilable(g, H)
    /\ m' = CompiledModel(g)
    /\ sol' = create_variables(m')
    /\ todo' = SolveOrder(g, m')
    /\ pc' = "solve"
    /\ UNCHANGED <<H, g, pass, out>>

\* a set rule or a constraint rule raises (TypeError on a class of None,
\* KeyError on an attribute it indexes directly, ValueError on a constraint
\* without variable): build_h2_model does not return
CompileFails ==
    /\ pc = "returned"
    /\ ~Compilable(g, H)
    /\ pc' = "build_h2_model raised"
    /\ UNCHANGED <<H, g, m, sol, todo, pass, out>>

SolveNode ==
    /\ pc = "solve"
    /\ todo # <<>>
    /\ Len(Head(todo)) = 1
    /\ LET n == Head(todo)[1]
           D == FixedAfter(m, Tail(todo)) IN
       \E exists \in Dom(m.producer_set, n, 1),
          capacity \in Dom(m.producer_set \cup m.converter_set, n, MaxQty),
          h \in Dom(m.producer_set \cup m.consumer_set, n, MaxQty),
          checs \in Dom(m.new_producers \cup m.consumer_set, n, MaxQty),
          built1 \in Dom(m.existing_producers, n, 1),
          built2 \in Dom(m.existing_producers, n, 1),
          cap1 \in Dom(m.existing_producers, n, MaxQty),
          cap2 \in Dom(m.existing_producers, n, MaxQty),
          co2_1 \in Dom(m.existing_producers, n, MaxCO2),
          co2_2 \in Dom(m.existing_producers, n, MaxCO2),
          checs1 \in Dom(m.existing_producers, n, MaxQty),
          checs2 \in Dom(m.existing_producers, n, MaxQty),
          subsidy \in Dom(m.fuelStation_set, n, MaxQty) :
            /\ sol' = [sol EXCEPT
                  !.prod_exists = Put(@, n, exists),
                  !.prod_capacity = Put(@, n, capacity),
                  !.prod_h = Put(@, n, h),
                  !.prod_checs = Put(@, n, checs),
                  !.conv_capacity = Put(@, n, capacity),
                  !.cons_h = Put(@, n, h),
                  !.cons_checs = Put(@, n, checs),
                  !.ccs1_built = Put(@, n, built1),
                  !.ccs2_built = Put(@, n, built2),
                  !.ccs1_capacity_h2 = Put(@, n, cap1),
                  !.ccs2_capacity_h2 = Put(@, n, cap2),
                  !.ccs1_co2_captured = Put(@, n, co2_1),
                  !.ccs2_co2_captured = Put(@, n, co2_2),
                  !.ccs1_checs = Put(@, n, checs1),
                  !.ccs2_checs = Put(@, n, checs2),
                  !.fuelStation_cost_capital_subsidy = Put(@, n, subsidy)]
            /\ apply_constraints(m, g, H, sol', D)
            /\ Promising(m, g, sol', D)
    /\ todo' = Tail(todo)
    /\ UNCHANGED <<H, g, m, pc, pass, out>>

SolveArc ==
    /\ pc = "solve"
    /\ todo # <<>>
    /\ Len(Head(todo)) = 2
    /\ LET a == Head(todo)
           D == FixedAfter(m, Tail(todo)) IN
       \E h \in 0..MaxQty : \E capacity \in Units(m, g, a, h) :
            /\ sol' = [sol EXCEPT !.dist_capacity[a] = capacity, !.dist_h[a] = h]
            /\ apply_constraints(m, g, H, sol', D)
            /\ Promising(m, g, sol', D)
    /\ todo' = Tail(todo)
    /\ UNCHANGED <<H, g, m, pc, pass, out>>

\* solver.solve returns an assignment that satisfies the model
SolverReturns ==
    /\ pc = "solve"
    /\ todo = <<>>
    /\ Feasible(m, g, H, sol)
    /\ pc' = "solved"
    /\ UNCHANGED <<H, g, m, sol, todo, pass, out>>

Solved == pc = "solved"

----------------------------------------------------------------------------
(* Properties of the returned assignment                                   *)

Inflow(n) == SumOver(sol.dist_h, in_edges(g, n))
Outflow(n) == SumOver(sol.dist_h, out_edges(g, n))
FlowLimitOf(a) == Get(g.edata[a], "flowLimit_tonsPerDay", 0)
ExistingProducers == {n \in DOMAIN g.ndata : Get(g.ndata[n], "existing", 0) = 1}
NewProducers ==
    {n \in DOMAIN g.ndata : g.ndata[n]["class"] = "producer" /\ Get(g.ndata[n], "existing", 0) = 0}
PlainNodes == {n \in DOMAIN g.ndata : n \notin m.producer_set /\ n \notin m.consumer_set}

\* C1: in every returned assignment, at every node that is neither a producer
\* nor a consumer, the flow over the incoming arcs equals the flow over the
\* outgoing arcs.
C1_FlowBalance ==
    Solved => \A n \in PlainNodes : Inflow(n) = Outflow(n)

\* a plain node with two incoming arcs carries hydrogen
C1_Witness ==
    /\ Solved
    /\ \E n \in PlainNodes : Cardinality(in_edges(g, n)) >= 2 /\ Inflow(n) >= 1 /\ Outflow(n) >= 1

\* C2: in every returned assignment, on every arc that carries a
\* class tag (the distribution arcs), the flow is at most the number of units
\* built times the flow limit of one unit.
C2_FlowWithinCapacity ==
    Solved => \A a \in DOMAIN g.edata :
                 "class" \in DOMAIN g.edata[a] => sol.dist_h[a] <= sol.dist_capacity[a] * FlowLimitOf(a)

\* a truck arc runs at the limit of the units built while a price link carries flow
C2_Witness ==
    /\ Solved
    /\ \E a \in DOMAIN g.edata :
          /\ "class" \in DOMAIN g.edata[a]
          /\ sol.dist_h[a] >= 1
          /\ sol.dist_h[a] = sol.dist_capacity[a] * FlowLimitOf(a)
    /\ \E a \in DOMAIN g.edata : "class" \notin DOMAIN g.edata[a] /\ sol.dist_h[a] >= 1

\* C2 as stated: the bound holds on every arc of the arc set, price links
\* included (read here with the most generous limit for an arc that records none)
C2_AsStated ==
    Solved => \A a \in DOMAIN g.edata :
                 sol.dist_h[a] <= sol.dist_capacity[a] * Get(g.edata[a], "flowLimit_tonsPerDay", FlowUnlimited)

\* C3: in every returned assignment no existing producer has both retrofit
\* technologies chosen.
C3_OnlyOneCCS ==
    Solved => \A n \in ExistingProducers : ~(sol.ccs1_built[n] = 1 /\ sol.ccs2_built[n] = 1)

\* a producer eligible for both technologies runs with one of them chosen
C3_Witness ==
    /\ Solved
    /\ \E n \in ExistingProducers :
          /\ g.ndata[n]["can_ccs1"] = 1 /\ g.ndata[n]["can_ccs2"] = 1
          /\ sol.prod_h[n] >= 1
          /\ sol.ccs1_built[n] + sol.ccs2_built[n] = 1

\* C4: in every returned assignment the hydrogen throughput of a retrofit
\* technology equals the whole output of the producer when the technology is
\* chosen and zero when it is not; with technology 1 chosen, technology 2 has
\* no throughput.
C4_NoPartialRetrofit ==
    Solved => \A n \in ExistingProducers :
                 /\ sol.ccs1_capacity_h2[n] = (IF sol.ccs1_built[n] = 1 THEN sol.prod_h[n] ELSE 0)
                 /\ sol.ccs2_capacity_h2[n] = (IF sol.ccs2_built[n] = 1 THEN sol.prod_h[n] ELSE 0)
                 /\ sol.ccs1_built[n] = 1 => sol.ccs2_capacity_h2[n] = 0

\* technology 1 is chosen at a producer that runs
C4_Witness ==
    /\ Solved
    /\ \E n \in ExistingProducers :
          sol.ccs1_built[n] = 1 /\ sol.prod_h[n] >= 1 /\ sol.ccs1_capacity_h2[n] = sol.prod_h[n]

\* C5 as stated: in every returned assignment the CO2 captured by each
\* technology equals throughput x emission rate x capture fraction, and a
\* technology the producer is not eligible for captures nothing and earns no
\* capture credit
C5_AsStated ==
    Solved => \A n \in ExistingProducers :
                 /\ sol.ccs1_co2_captured[n] * PctScale
                       = sol.ccs1_capacity_h2[n] * g.ndata[n]["co2_emissions_per_h2_tons"]
                            * H.ccs1_percent_co2_captured
                 /\ sol.ccs2_co2_captured[n] * PctScale
                       = sol.ccs2_capacity_h2[n] * g.ndata[n]["co2_emissions_per_h2_tons"]
                            * H.ccs2_percent_co2_captured
                 /\ g.ndata[n]["can_ccs1"] = 0 => sol.ccs1_co2_captured[n] = 0
                 /\ g.ndata[n]["can_ccs2"] = 0 => sol.ccs2_co2_captured[n] = 0
                 /\ (g.ndata[n]["can_ccs1"] = 0 /\ g.ndata[n]["can_ccs2"] = 0)
                        => U_carbon_capture_credit_retrofit(m, H, sol) = 0

\* hydrogen taken by the consumers that ask for clean hydrogen
SensitiveConsumption ==
    LET S == {n \in m.consumer_set : Get(g.ndata[n], "carbonSensitive", 0) = 1}
    IN  SumOver(sol.cons_h, S)

\* capture fraction that counts for credits, in hundredths
CreditFraction(pct) == IF H.fractional_chec THEN pct ELSE PctScale

\* largest number of credits the producers can generate, in hundredths
CreditsAvailable ==
    SumOver([n \in NewProducers |-> sol.prod_h[n] * Get(g.ndata[n], "chec_per_ton", 0)],
            NewProducers)
    + SumOver([n \in ExistingProducers |->
                  sol.ccs1_capacity_h2[n] * CreditFraction(H.ccs1_percent_co2_captured)
                  + sol.ccs2_capacity_h2[n] * CreditFraction(H.ccs2_percent_co2_captured)],
              ExistingProducers)

\* C6: in every returned assignment the hydrogen consumed by carbon-sensitive
\* consumers is covered by the credits generated: a new producer generates
\* exactly its output times its credit rate, a retrofit at most its throughput
\* times the capture fraction when credits are fractional and at most its
\* throughput when they are not.
C6_CreditsCoverCleanDemand ==
    Solved =>
        /\ \A n \in NewProducers :
              sol.prod_checs[n] * PctScale = sol.prod_h[n] * Get(g.ndata[n], "chec_per_ton", 0)
        /\ \A n \in ExistingProducers :
              /\ sol.ccs1_checs[n] * PctScale
                    <= sol.ccs1_capacity_h2[n] * CreditFraction(H.ccs1_percent_co2_captured)
              /\ sol.ccs2_checs[n] * PctScale
                    <= sol.ccs2_capacity_h2[n] * CreditFraction(H.ccs2_percent_co2_captured)
        /\ SensitiveConsumption * PctScale <= CreditsAvailable

\* clean demand is served from a retrofit while credits are whole
C6_Witness ==
    /\ Solved
    /\ ~H.fractional_chec
    /\ SensitiveConsumption >= 1
    /\ \E n \in ExistingProducers : sol.ccs1_built[n] = 1 /\ sol.ccs1_checs[n] >= 1

TruckDepots == {n \in DOMAIN g.ndata : Contains("dist_truck", g.ndata[n]["class"])}
TrucksIn(n) ==
    SumOver(sol.dist_capacity,
            {a \in in_edges(g, n) : Contains("converter", g.ndata[a[1]]["class"])})
TrucksOut(n) ==
    SumOver(sol.dist_capacity,
            {a \in out_edges(g, n) : \/ Contains("converter", g.ndata[a[2]]["class"])
                                     \/ Contains("dist_", g.ndata[a[2]]["class"])
                                     \/ Contains("demand_", g.ndata[a[2]]["class"])})

\* C7: in every returned assignment, at every truck depot the capacity on the
\* arcs that enter from conversion nodes equals the capacity on the arcs that
\* leave towards converters, other depots and demand nodes.
C7_TruckConsistency ==
    Solved => \A n \in TruckDepots : TrucksIn(n) = TrucksOut(n)

\* a depot with two outgoing arcs holds at least one truck
C7_Witness ==
    /\ Solved
    /\ \E n \in TruckDepots : Cardinality(out_edges(g, n)) >= 2 /\ TrucksIn(n) >= 1

\* C8: in every returned assignment the capacity of a new producer lies
\* between its minimum and its maximum build size, both times its existence
\* binary, so a producer that is not built has capacity 0.
C8_NewProducerCapacity ==
    Solved => \A n \in NewProducers :
                 /\ sol.prod_capacity[n] >= g.ndata[n]["min_h2"] * sol.prod_exists[n]
                 /\ sol.prod_capacity[n] <= g.ndata[n]["max_h2"] * sol.prod_exists[n]
                 /\ sol.prod_exists[n] = 0 => sol.prod_capacity[n] = 0

\* a producer with a positive minimum size is built
C8_Witness ==
    /\ Solved
    /\ \E n \in NewProducers :
          g.ndata[n]["min_h2"] >= 1 /\ sol.prod_exists[n] = 1 /\ sol.prod_capacity[n] >= 1

\* C9: in every returned assignment every existing producer has existence
\* binary 1 and the capacity recorded for it in the network.
C9_ExistingProducerPinned ==
    Solved => \A n \in ExistingProducers :
                 /\ sol.prod_exists[n] = 1
                 /\ sol.prod_capacity[n] = g.ndata[n]["capacity_tonPerDay"]

\* an existing producer stands idle and keeps its recorded capacity
C9_Witness ==
    /\ Solved
    /\ \E n \in ExistingProducers :
          sol.prod_h[n] = 0 /\ sol.prod_capacity[n] = g.ndata[n]["capacity_tonPerDay"]
                            /\ sol.prod_capacity[n] >= 1

\* C11 as stated: the objective of a returned assignment is the sum of
\* the consumption utility, the avoided-carbon-tax utility, the carbon-capture
\* credits and the production tax credits, minus the production, retrofit,
\* distribution and conversion costs
C11_AsStated ==
    Solved =>
        obj_rule(m, H, sol)
          = Dollars(H, U_hydrogen(m, sol))
            + Dollars(H, U_carbon(m, H, sol))
            + Hundredths(H, U_carbon_capture_credit_new(m, H, sol))
            + Dollars(H, U_carbon_capture_credit_retrofit(m, H, sol))
            + Dollars(H, U_h2_tax_credit(m, sol))
            + Dollars(H, U_h2_tax_credit_retrofit_ccs(m, H, sol))
            - Dollars(H, P_variable(m, sol))
            - Dollars(H, P_electricity(m, sol))
            - Dollars(H, P_naturalGas(m, sol))
            - Amortized(H, P_capital(m, sol))
            - Hundredths(H, P_carbon(m, H, sol))
            - Dollars(H, CCS_variable(m, H, sol))
            - Dollars(H, D_variable(m, sol))
            - Amortized(H, D_capital(m, sol))
            - Hundredths(H, CV_variable(m, sol))
            - Hundredths(H, CV_electricity(m, sol))
            - Amortized(H, CV_capital(m, sol))

----------------------------------------------------------------------------
(* Network synthesizer: hydrogen_network.initialize_graph (create_graph.py) *)
(* Money is in whole dollars, capital_pm in hundredths.                     *)

\* H.distributors[H.distributors["distributor"].str.contains("truck")]["distributor"]
truck_types(HH) ==
    LET rows == SelectSeq(HH.distributors, LAMBDA r : Contains("truck", r.distributor))
    IN  [i \in 1..Len(rows) |-> rows[i].distributor]

\* H.distributors[H.distributors["distributor"] == d].iloc[0]
distributor_row(HH, d) == SelectSeq(HH.distributors, LAMBDA r : r.distributor = d)[1]

\* step 1.2: the distribution nodes of one hub
RECURSIVE distributor_nodes(_, _, _)
distributor_nodes(HH, hub_name, i) ==
    IF i > Len(HH.distributors) THEN <<>>
    ELSE LET d == HH.distributors[i].distributor
             name(suffix) == hub_name \o "_dist_" \o d \o suffix
             char(suffix) == [node |-> name(suffix),
                              class |-> Remove(name(suffix), hub_name \o "_"),
                              hub_name |-> hub_name]
         IN  (IF d = "pipeline"
              THEN add_node(name("LowPurity"), char("LowPurity"))
                   \o add_node(name("HighPurity"), char("HighPurity"))
              ELSE add_node(name(""), char("")))
             \o distributor_nodes(HH, hub_name, i + 1)

\* step 1: the nodes of one hub
hub_nodes(HH, arow) ==
    LET hub_name == arow.node
        hub(purity_type) ==
            LET node == hub_name \o "_hub_" \o purity_type
            IN  Update(arow, [node |-> node, class |-> Remove(node, hub_name \o "_"),
                              hub_name |-> hub_name])
        demand(demand_type) ==
            LET node == hub_name \o "_demand_" \o demand_type
            IN  [node |-> node, class |-> Remove(node, hub_name \o "_"), hub_name |-> hub_name]
    IN  add_node(hub("lowPurity").node, hub("lowPurity"))
        \o add_node(hub("highPurity").node, hub("highPurity"))
        \o distributor_nodes(HH, hub_name, 1)
        \o add_node(demand("lowPurity").node, demand("lowPurity"))
        \o add_node(demand("highPurity").node, demand("highPurity"))
        \o add_node(demand("fuelStation").node, demand("fuelStation"))

\* a free arc inside a hub, as the synthesizer writes it
free_arc(flowLimit, class) ==
    [kmLength |-> 0, capital_usdPerUnit |-> 0, fixed_usdPerUnitPerDay |-> 0,
     variable_usdPerTon |-> 0, flowLimit_tonsPerDay |-> flowLimit, class |-> class]

\* step 2.2: the depot arcs of one hub
RECURSIVE depot_arcs(_, _, _)
depot_arcs(HH, arow, i) ==
    IF i > Len(truck_types(HH)) THEN <<>>
    ELSE LET truck_type == truck_types(HH)[i]
             row == distributor_row(HH, truck_type)
             depot_char ==
                 [startNode |-> arow.node \o "_hub_highPurity",
                  endNode |-> arow.node \o "_dist_" \o truck_type,
                  kmLength |-> 0,
                  capital_usdPerUnit |-> (row.capital_usdPerUnit * arow.capital_pm) \div PctScale,
                  fixed_usdPerUnitPerDay |-> row.fixed_usdPerUnitPerDay,
                  variable_usdPerTon |-> 0,
                  flowLimit_tonsPerDay |-> row.flowLimit_tonsPerDay,
                  class |-> "hub_depot_" \o truck_type]
         IN  add_edge(depot_char.startNode, depot_char.endNode, depot_char)
             \o depot_arcs(HH, arow, i + 1)

\* step 2: the arcs inside one hub
hub_arcs(HH, arow) ==
    LET h == arow.node
        within == free_arc(FlowUnlimited, "flow_within_hub")
        reverse == free_arc(FlowUnlimited, "reverse_flow_within_hub")
        connection == free_arc(FlowUnlimited, "flow_to_demand_node")
        truck_Liquefied == free_arc(FlowTruckLiquefied, "flow_to_demand_node")
    IN  add_edge(h \o "_hub_lowPurity", h \o "_dist_pipelineLowPurity", within)
        \o add_edge(h \o "_hub_highPurity", h \o "_dist_pipelineHighPurity", within)
        \o add_edge(h \o "_dist_pipelineLowPurity", h \o "_hub_lowPurity", reverse)
        \o add_edge(h \o "_dist_pipelineHighPurity", h \o "_hub_highPurity", reverse)
        \o depot_arcs(HH, arow, 1)
        \o add_edge(h \o "_dist_pipelineHighPurity", h \o "_demand_fuelStation", connection)
        \o add_edge(h \o "_dist_truckCompressed", h \o "_demand_fuelStation", connection)
        \o add_edge(h \o "_dist_truckLiquefied", h \o "_demand_fuelStation", truck_Liquefied)
        \o add_edge(h \o "_dist_pipelineHighPurity", h \o "_demand_highPurity", connection)
        \o add_edge(h \o "_dist_truckCompressed", h \o "_demand_highPurity", connection)
        \o add_edge(h \o "_dist_truckLiquefied", h \o "_demand_highPurity", truck_Liquefied)
        \o add_edge(h \o "_dist_pipelineLowPurity", h \o "_demand_lowPurity", connection)
        \o add_edge(h \o "_dist_pipelineHighPurity", h \o "_demand_lowPurity", connection)
        \o add_edge(h \o "_dist_truckCompressed", h \o "_demand_lowPurity", connection)
        \o add_edge(h \o "_dist_truckLiquefied", h \o "_demand_lowPurity", truck_Liquefied)
        \o add_edge(h \o "_hub_lowPurity", h \o "_hub_highPurity",
                    free_arc(FlowUnlimited, "flow_through_purifier"))

\* steps 1 and 2 over the rows of H.nodes
RECURSIVE add_hubs(_, _)
add_hubs(HH, i) ==
    IF i > Len(HH.nodes) THEN <<>>
    ELSE hub_nodes(HH, HH.nodes[i]) \o hub_arcs(HH, HH.nodes[i]) \o add_hubs(HH, i + 1)

\* the existing flag a pipeline arc of the record arow gets, if the flag of
\* the record were copied to both purities
pipeline_existing_any_purity(arow, purity_type) == arow.exist_pipeline

\* the existing flag a pipeline arc of the record arow gets: the record is
\* reset to 0 before the high-purity arcs are written
pipeline_existing(arow, purity_type) ==
    IF purity_type = "HighPurity" THEN 0 ELSE arow.exist_pipeline

\* step 3, 2.2: the truck routes along one direction of a record
RECURSIVE truck_routes(_, _, _, _)
truck_routes(HH, arc, road_length, i) ==
    IF i > Len(truck_types(HH)) THEN <<>>
    ELSE LET truck_type == truck_types(HH)[i]
             row == distributor_row(HH, truck_type)
             truck_route_dict ==
                 [startNode |-> arc[1] \o "_dist_" \o truck_type,
                  endNode |-> arc[2] \o "_dist_" \o truck_type,
                  kmLength |-> road_length,
                  capital_usdPerUnit |-> 0,
                  fixed_usdPerUnitPerDay |-> 0,
                  flowLimit_tonsPerDay |-> row.flowLimit_tonsPerDay,
                  variable_usdPerTon |-> row.variable_usdPerKilometer_Ton * road_length,
                  class |-> "arc_" \o truck_type]
         IN  add_edge(truck_route_dict.startNode, truck_route_dict.endNode, truck_route_dict)
             \o truck_routes(HH, arc, road_length, i + 1)

\* twice the capital multiplier of the record arow, if the multiplier were
\* that of the hub the record starts at
capital_pm_sum_start(HH, arow) ==
    2 * SelectSeq(HH.nodes, LAMBDA r : r.node = arow.startNode)[1].capital_pm

\* step 3: H.nodes[(node == start) | (node == end)]["capital_pm"].sum(), which
\* the record's capital_price_multiplier is the half of
capital_pm_sum(HH, arow) ==
    LET pm_rows == SelectSeq(HH.nodes, LAMBDA r : r.node = arow.startNode \/ r.node = arow.endNode)
    IN  SumOver([i \in 1..Len(pm_rows) |-> pm_rows[i].capital_pm], 1..Len(pm_rows))

\* step 3, 2.1 and 2.2: one direction of a record at one purity
add_direction(HH, arow, purity_type, arc) ==
    LET pipeline_df == distributor_row(HH, "pipeline")
        pipeline_length == arow.kmLength_road
        pm_sum == capital_pm_sum(HH, arow)
        pipeline_char ==
            [startNode |-> arc[1] \o "_dist_pipeline" \o purity_type,
             endNode |-> arc[2] \o "_dist_pipeline" \o purity_type,
             kmLength |-> pipeline_length,
             capital_usdPerUnit |->
                 (pipeline_df.capital_usdPerUnit * pipeline_length * pm_sum) \div (2 * PctScale),
             fixed_usdPerUnitPerDay |-> pipeline_df.fixed_usdPerUnitPerDay * pipeline_length,
             variable_usdPerTon |-> pipeline_df.variable_usdPerKilometer_Ton * pipeline_length,
             flowLimit_tonsPerDay |-> pipeline_df.flowLimit_tonsPerDay,
             class |-> "arc_pipeline" \o purity_type,
             existing |-> pipeline_existing(arow, purity_type)]
    IN  add_edge(pipeline_char.startNode, pipeline_char.endNode, pipeline_char)
        \o (IF purity_type = "HighPurity"
            THEN truck_routes(HH, arc, arow.kmLength_road, 1)
            ELSE <<>>)

\* step 3 for one record: both purities, both directions
add_record(HH, arow) ==
    LET there == <<arow.startNode, arow.endNode>>
        back == <<arow.endNode, arow.startNode>>
    IN  add_direction(HH, arow, "LowPurity", there)
        \o add_direction(HH, arow, "LowPurity", back)
        \o add_direction(HH, arow, "HighPurity", there)
        \o add_direction(HH, arow, "HighPurity", back)

RECURSIVE add_records(_, _)
add_records(HH, i) ==
    IF i > Len(HH.arcs) THEN <<>> ELSE add_record(HH, HH.arcs[i]) \o add_records(HH, i + 1)

\* step 4: every arc without startNode gets startNode and endNode
add_endpoints(G) ==
    [G EXCEPT !.edata = [e \in DOMAIN G.edata |->
        IF "startNode" \in DOMAIN G.edata[e] THEN G.edata[e]
        ELSE Update(G.edata[e], [startNode |-> e[1], endNode |-> e[2]])]]

initialize_graph(HH) == add_endpoints(DiGraph(add_hubs(HH, 1) \o add_records(HH, 1)))

----------------------------------------------------------------------------
(* Tables of the hubs "A" and "B"                                           *)

Hubs == <<"A", "B">>

\* the distributor table: pipelines and both kinds of truck
Distributors ==
    << [distributor |-> "pipeline", capital_usdPerUnit |-> 4, fixed_usdPerUnitPerDay |-> 1,
        variable_usdPerKilometer_Ton |-> 1, flowLimit_tonsPerDay |-> 2],
       [distributor |-> "truckCompressed", capital_usdPerUnit |-> 2, fixed_usdPerUnitPerDay |-> 1,
        variable_usdPerKilometer_Ton |-> 1, flowLimit_tonsPerDay |-> 1],
       [distributor |-> "truckLiquefied", capital_usdPerUnit |-> 3, fixed_usdPerUnitPerDay |-> 1,
        variable_usdPerKilometer_Ton |-> 1, flowLimit_tonsPerDay |-> 1] >>

\* the inter-hub table: empty, or the one record of the pair of hubs
ArcTables ==
    {<<>>} \cup
    {<< [startNode |-> Hubs[1], endNode |-> Hubs[2], kmLength_road |-> km, exist_pipeline |-> ex] >> :
        km \in 1..MaxKm, ex \in 0..1}

----------------------------------------------------------------------------
(* Properties of the synthesized network and its solution                  *)

Compiled == pc \in {"solve", "solved"}

\* the two pipeline arcs of one purity that the record r generates
PipelineArcs(r, purity_type) ==
    { <<r.startNode \o "_dist_pipeline" \o purity_type, r.endNode \o "_dist_pipeline" \o purity_type>>,
      <<r.endNode \o "_dist_pipeline" \o purity_type, r.startNode \o "_dist_pipeline" \o purity_type>> }

Records == {H.arcs[i] : i \in 1..Len(H.arcs)}
FlaggedRecords == {r \in Records : r.exist_pipeline = 1}

\* C10: for an inter-hub record flagged as an existing pipeline, the two
\* low-purity pipeline arcs generated from it (and no other arc) are in the
\* existing-pipeline subset of the compiled model and have dist_capacity >= 1
\* in every returned assignment; the high-purity arcs of a record are never in
\* that subset.
C10_ExistingPipelines ==
    /\ Compiled =>
          /\ m.distribution_arc_existing_set
                = UNION {PipelineArcs(r, "LowPurity") : r \in FlaggedRecords}
          /\ \A r \in FlaggedRecords :
                Cardinality(PipelineArcs(r, "LowPurity") \cap m.distribution_arc_existing_set) = 2
          /\ \A r \in Records :
                /\ PipelineArcs(r, "HighPurity") \subseteq m.arc_set
                /\ PipelineArcs(r, "HighPurity") \cap m.distribution_arc_existing_set = {}
    /\ Solved =>
          \A r \in FlaggedRecords : \A a \in PipelineArcs(r, "LowPurity") : sol.dist_capacity[a] >= 1

\* a flagged record is solved with its low-purity arcs kept and no
\* high-purity pipeline built
C10_Witness ==
    /\ Solved
    /\ \E r \in FlaggedRecords :
          /\ \A a \in PipelineArcs(r, "LowPurity") : sol.dist_capacity[a] >= 1
          /\ \A a \in PipelineArcs(r, "HighPurity") : sol.dist_capacity[a] = 0

\* C12 as stated: model construction never aborts, and every coefficient
\* the compiler reads from a node or an arc has a value (0 when the attribute
\* is missing), never None
C12_AsStated ==
    /\ pc = "build_h2_model raised" => attributes_indexed(g)
    /\ Compiled => \A n \in m.new_electric_producers : m.grid_intensity[n] # <<>>

----------------------------------------------------------------------------
(* Network synthesizer: the passes of hydrogen_network.__init__ after       *)
(* initialize_graph (create_graph.py), on the graph as it stands            *)

\* G.add_node(n, **attrs): creates n, or updates the attributes it has
with_node(G, n, attrs) ==
    IF n \in DOMAIN G.ndata
    THEN [G EXCEPT !.ndata[n] = Update(@, attrs)]
    ELSE [G EXCEPT !.nodes = Append(@, n), !.ndata = (n :> attrs) @@ @]

\* G.add_edge(u, v, **attrs): creates the endpoints it misses, without
\* attributes, then creates the arc or updates the attributes it has
with_edge(G, u, v, attrs) ==
    LET G1 == with_node(with_node(G, u, NoAttrs), v, NoAttrs)
    IN  IF <<u, v>> \in DOMAIN G1.edata
        THEN [G1 EXCEPT !.edata[<<u, v>>] = Update(@, attrs)]
        ELSE [G1 EXCEPT !.edges = Append(@, <<u, v>>), !.edata = (<<u, v>> :> attrs) @@ @]

\* G.remove_edge(u, v)
remove_edge(G, e) ==
    [G EXCEPT !.edges = SelectSeq(@, LAMBDA x : x # e),
              !.edata = [x \in DOMAIN @ \ {e} |-> @[x]]]

\* the graph G after the calls ops, in order
RECURSIVE Apply(_, _)
Apply(G, ops) ==
    IF ops = <<>> THEN G
    ELSE LET c == Head(ops)
             after == IF c.op = "node" THEN with_node(G, c.n, c.attrs)
                      ELSE with_edge(G, c.u, c.v, c.attrs)
         IN  \* each call is evaluated before the next one is looked at
             IF after = G THEN Apply(G, Tail(ops)) ELSE Apply(after, Tail(ops))

\* the calls of a loop: the calls of its iterations, one after the other
RECURSIVE Concat(_)
Concat(seqs) == IF seqs = <<>> THEN <<>> ELSE Head(seqs) \o Concat(Tail(seqs))

\* str.upper() on one letter
upper(c) ==
    LET up == [a |-> "A", b |-> "B", c |-> "C", d |-> "D", e |-> "E", f |-> "F", g |-> "G",
               h |-> "H", i |-> "I", j |-> "J", k |-> "K", l |-> "L", m |-> "M", n |-> "N",
               o |-> "O", p |-> "P", q |-> "Q", r |-> "R", s |-> "S", t |-> "T", u |-> "U",
               v |-> "V", w |-> "W", x |-> "X", y |-> "Y", z |-> "Z"]
    IN  IF c \in DOMAIN up THEN up[c] ELSE c

\* cap_first(s): s[0].upper() + s[1:]
cap_first(s) == upper(SubSeq(s, 1, 1)) \o SubSeq(s, 2, Len(s))

\* "{}".format(p) for a whole number p >= 0
RECURSIVE str(_)
str(p) ==
    LET digit == <<"0", "1", "2", "3", "4", "5", "6", "7", "8", "9">>
    IN  IF p < 10 THEN digit[p + 1] ELSE str(p \div 10) \o digit[(p % 10) + 1]

\* add_consumers, one hub and one sector: the carbon-indifferent and the
\* carbon-sensitive node of the sector and their arcs from the demand node
consumer_calls(HH, arow, demand_sector) ==
    LET hub_name == arow.node
        tonnes == arow[demand_sector \o "_tonnesperday"]
        row == SelectSeq(HH.demand, LAMBDA r : r.sector = demand_sector)[1]
        node == hub_name \o "_demandSector_" \o demand_sector
        demand_node_char ==
            Update(row, [node |-> node, class |-> Remove(node, hub_name \o "_"),
                         size |-> (tonnes * (PctScale - row.carbonSensitiveFraction)) \div PctScale,
                         carbonSensitive |-> 0, hub_name |-> hub_name])
        demand_node_char_carbon ==
            Update(demand_node_char,
                   [node |-> node \o "_carbonSensitive",
                    size |-> (tonnes * row.carbonSensitiveFraction) \div PctScale,
                    carbonSensitive |-> 1])
        demand_arc_char == free_arc(FlowUnlimited, "flow_to_demand_sector")
        demandType == row.demandType
    IN  IF tonnes = 0 THEN <<>>
        ELSE add_node(demand_node_char.node, demand_node_char)
             \o add_edge(hub_name \o "_demand_" \o demandType, demand_node_char.node,
                         demand_arc_char)
             \o add_node(demand_node_char_carbon.node, demand_node_char_carbon)
             \o add_edge(hub_name \o "_demand_" \o demandType, demand_node_char_carbon.node,
                         demand_arc_char)

\* add_consumers: the calls over the hubs and, for each, over the sectors
add_consumers(HH) ==
    Concat([i \in 1..Len(HH.nodes) |->
              Concat([j \in 1..Len(HH.demand) |->
                        consumer_calls(HH, HH.nodes[i], HH.demand[j].sector)])])

\* add_producers, first loop, one hub and one technology
new_producer_calls(nrow, prow0) ==
    LET prow ==
            Update(prow0,
                   [node |-> nrow.node \o "_production_" \o prow0.type,
                    class |-> "producer", existing |-> 0, hub_name |-> nrow.node,
                    capital_usd_coefficient |->
                        (prow0.capital_usd_coefficient * nrow.capital_pm) \div PctScale,
                    kWh_coefficient |-> (prow0.kWh_coefficient * nrow.e_pm) \div PctScale,
                    ng_coefficient |-> (prow0.ng_coefficient * nrow.ng_pm) \div PctScale])
        endNode == nrow.node \o "_hub_" \o prow.purity \o "Purity"
        edge_dict ==
            Update(free_arc(FlowFromProducer, "flow_from_producer"),
                   [startNode |-> prow.node, endNode |-> endNode,
                    min_h2 |-> prow.min_h2, max_h2 |-> prow.max_h2])
    IN  IF nrow["build_" \o prow0.type] = 0 THEN <<>>
        ELSE add_node(prow.node, prow) \o add_edge(prow.node, endNode, edge_dict)

\* add_producers, second loop: the technology of an existing producer is
\* looked up in H.producers with .iloc[0], an IndexError when it is absent
technology_known(HH, prow) ==
    \E j \in 1..Len(HH.producers) : HH.producers[j].type = prow.type

\* add_producers, second loop, one row of H.producers_existing
existing_producer_calls(HH, prow0) ==
    LET hub_name == prow0.hub_name
        prow == Update(prow0, [node |-> hub_name \o "_production_" \o prow0.type \o "Existing",
                               class |-> "producer", existing |-> 1])
        production_purity ==
            SelectSeq(HH.producers, LAMBDA r : r.type = prow.type)[1].purity
        endNode == hub_name \o "_hub_" \o production_purity \o "Purity"
        edge_dict ==
            Update(free_arc(FlowFromProducer, "flow_from_producer"),
                   [startNode |-> prow.node, endNode |-> endNode])
    IN  add_node(prow.node, prow) \o add_edge(prow.node, endNode, edge_dict)

\* add_producers: the calls of both loops
add_producers(HH) ==
    Concat([i \in 1..Len(HH.nodes) |->
              Concat([j \in 1..Len(HH.producers) |->
                        new_producer_calls(HH.nodes[i], HH.producers[j])])])
    \o Concat([i \in 1..Len(HH.producers_existing) |->
                 existing_producer_calls(HH, HH.producers_existing[i])])

\* add_converters, lines 530-544: the rule's row after it was rewritten for
\* the hub of the node being visited; the row is the loop variable of the
\* rule, so the products accumulate from one visited node to the next
converter_row(HH, cvrow, hub_name) ==
    LET node == hub_name \o "_converter_" \o cvrow.converter
        hub_data == SelectSeq(HH.nodes, LAMBDA r : r.node = hub_name)[1]
    IN  Update(cvrow,
               [hub_name |-> hub_name, node |-> node,
                class |-> Remove(node, hub_name \o "_"),
                capital_usd_coefficient |->
                    (cvrow.capital_usd_coefficient * hub_data.capital_pm) \div PctScale,
                kWh_coefficient |-> (cvrow.kWh_coefficient * hub_data.e_pm) \div PctScale])

\* the arcs out of n that would be rewritten if every arc leaving a node of
\* the class of n were taken
change_edges_list_by_class(G, n, arc_end_class) ==
    SelectSeq(G.edges, LAMBDA s : /\ Get(G.ndata[s[1]], "class", "") = G.ndata[n]["class"]
                                  /\ G.ndata[s[2]]["class"] = arc_end_class)

\* add_converters, lines 546-556: the arcs out of n that end at a node of the
\* downstream class
change_edges_list(G, n, arc_end_class) ==
    SelectSeq(G.edges, LAMBDA s : s[1] = n /\ G.ndata[s[2]]["class"] = arc_end_class)

\* the flow limit of the arc into the converter, if it were left unlimited
upstream_flowLimit_free(attrs) == FlowUnlimited

\* add_converters, lines 569-571: the flow limit of the arc into the converter
upstream_flowLimit(attrs) == attrs.flowLimit_tonsPerDay

\* add_converters, lines 558-584: the arcs of ces rewritten, in order
RECURSIVE change_edges(_, _, _)
change_edges(G, cvrow, ces) ==
    IF ces = <<>> THEN G
    ELSE LET ce == Head(ces)
             G1 == with_edge(G, G.edata[ce].startNode, cvrow.node,
                             [startNode |-> G.edata[ce].startNode, endNode |-> cvrow.node,
                              kmLength |-> 0, capital_usdPerUnit |-> 0,
                              fixed_usdPerUnitPerDay |-> 0, variable_usdPerTon |-> 0,
                              flowLimit_tonsPerDay |-> upstream_flowLimit(G.edata[ce]),
                              class |-> cvrow.class])
             G2 == with_edge(G1, cvrow.node, G1.edata[ce].endNode, G1.edata[ce])
             G3 == with_edge(G2, cvrow.node, G2.edata[ce].endNode, [startNode |-> cvrow.node])
         IN  change_edges(remove_edge(G3, ce), cvrow, Tail(ces))

\* add_converters, the body of the loop over the nodes raises: the node has
\* no attributes (KeyError on "node"), the hub of the node is not in H.nodes
\* (IndexError), an arc ends at a node without class (KeyError), or an arc to
\* rewrite lacks startNode, endNode or flowLimit_tonsPerDay (KeyError)
visit_raises(G, HH, cvrow, n) ==
    IF "node" \notin DOMAIN G.ndata[n] \/ "class" \notin DOMAIN G.ndata[n] THEN TRUE
    ELSE IF G.ndata[n]["class"] # cvrow.arc_start_class THEN FALSE
    ELSE IF "hub_name" \notin DOMAIN G.ndata[n] THEN TRUE
    ELSE IF \A i \in 1..Len(HH.nodes) : HH.nodes[i].node # G.ndata[n].hub_name THEN TRUE
    ELSE IF \E e \in DOMAIN G.edata : "class" \notin DOMAIN G.ndata[e[2]] THEN TRUE
    ELSE \E e \in DOMAIN G.edata :
            /\ e[1] = n
            /\ G.ndata[e[2]]["class"] = cvrow.arc_end_class
            /\ ~({"startNode", "endNode", "flowLimit_tonsPerDay"} \subseteq DOMAIN G.edata[e])

\* add_converters, lines 530-584 with the arcs to rewrite given: the converter
\* of the hub of n is written, then the arcs of ces are rewritten
visit_edges(G, HH, cvrow, n, ces) ==
    LET row == converter_row(HH, cvrow, G.ndata[n].hub_name)
    IN  [g |-> change_edges(with_node(G, row.node, row), row, ces), cvrow |-> row]

\* add_converters, lines 525-584: the body of the loop over the nodes; the
\* arcs to rewrite are read from the graph once the converter node is in it
visit(G, HH, cvrow, n) ==
    IF G.ndata[n]["class"] # cvrow.arc_start_class THEN [g |-> G, cvrow |-> cvrow]
    ELSE LET row == converter_row(HH, cvrow, G.ndata[n].hub_name)
         IN  visit_edges(G, HH, cvrow, n,
                         change_edges_list(with_node(G, row.node, row), n, cvrow.arc_end_class))

\* add_price_nodes, lines 606-630: one probe and its arc
price_calls(HH, ph, p, demand_type) ==
    LET price_node_dict ==
            [node |-> ph \o "_price" \o cap_first(demand_type) \o "_" \o str(p),
             sector |-> "price", hub_name |-> ph, breakevenPrice |-> p * 1000,
             size |-> HH.price_demand, carbonSensitiveFraction |-> 0,
             breakevenCarbon_g_MJ |-> 0, demandType |-> demand_type, class |-> "price"]
        price_edge_dict ==
            [startNode |-> ph \o "_demand_" \o demand_type, endNode |-> price_node_dict.node,
             kmLength |-> 0, capital_usdPerUnit |-> 0]
    IN  add_node(price_node_dict.node, price_node_dict)
        \o add_edge(price_edge_dict.startNode, price_edge_dict.endNode, price_edge_dict)

\* the setting price_hubs: "all", written as a list of that one word (a
\* list of hub names otherwise)
all == <<"all">>

\* add_price_nodes, line 600: the hub_name of every node of the graph, None
\* for a node that has none
hub_names(G) == {Get(G.ndata[n], "hub_name", "None") : n \in SeqToSet(G.nodes)}

\* the orders in which the elements of a set are iterated
Orders(S) ==
    {order \in [1..Cardinality(S) -> S] :
        \A i, j \in 1..Cardinality(S) : order[i] = order[j] => i = j}

\* add_price_nodes, lines 599-601: the values H.price_hubs has in the loop,
\* a set being written as its elements in the order of the iteration
price_hubs_assigned(HH, G) ==
    IF HH.find_prices /\ HH.price_hubs = all THEN Orders(hub_names(G)) ELSE {HH.price_hubs}

\* add_price_nodes: the calls over the tracked hubs, the prices and the demand types
add_price_nodes(HH) ==
    LET demand_types == <<"fuelStation", "lowPurity", "highPurity">>
    IN  IF ~HH.find_prices THEN <<>>
        ELSE Concat([i \in 1..Len(HH.price_hubs) |->
                Concat([j \in 1..Len(HH.price_tracking_array) |->
                   Concat([k \in 1..3 |->
                      price_calls(HH, HH.price_hubs[i], HH.price_tracking_array[j],
                                  demand_types[k])])])])

----------------------------------------------------------------------------
(* The synthesizer as a process: hydrogen_network.__init__                  *)

\* a row of H.nodes (hubs.csv)
hub_table_row(name, capital_pm, build_smr, tonnes) ==
    [node |-> name, capital_pm |-> capital_pm, ng_pm |-> PctScale, e_pm |-> capital_pm,
     build_smr |-> build_smr, industry_tonnesperday |-> tonnes]

\* H.nodes: hub A builds and consumes and is three times as expensive as the
\* reference, hub B is twice as expensive and does neither
HubTable == <<hub_table_row("A", 3 * PctScale, 1, 2), hub_table_row("B", 2 * PctScale, 0, 0)>>

\* H.producers (production.csv)
ProducerTable ==
    << [type |-> "smr", purity |-> "low", prod_tech_type |-> "thermal",
        capital_usd_coefficient |-> 3, kWh_coefficient |-> 1, ng_coefficient |-> 1,
        min_h2 |-> 0, max_h2 |-> MaxCap, utilization |-> PctScale] >>

\* a row of H.producers_existing (production_existing.csv)
existing_row(hub_name, type) ==
    [hub_name |-> hub_name, type |-> type, capacity_tonPerDay |-> MaxQty,
     utilization |-> PctScale, can_ccs1 |-> 1, can_ccs2 |-> 0]

\* H.producers_existing: none, one at hub A, one at a hub that H.nodes does
\* not list, one of a technology that H.producers does not list
ExistingTables ==
    {<<>>, <<existing_row("A", "smr")>>, <<existing_row("C", "smr")>>,
     <<existing_row("A", "atr")>>}

\* H.demand (demand.csv)
DemandTable ==
    << [sector |-> "industry", demandType |-> "lowPurity", carbonSensitiveFraction |-> 50,
        breakevenPrice |-> 3, avoided_emissions_tonsCO2_per_H2 |-> 1] >>

\* a row of H.converters (conversion.csv)
converter_rule(converter, arc_start_class, arc_end_class) ==
    [converter |-> converter, arc_start_class |-> arc_start_class,
     arc_end_class |-> arc_end_class, capital_usd_coefficient |-> 2,
     kWh_coefficient |-> 1, utilization |-> PctScale]

\* H.converters: none; a row to pass over and the compressor of the truck
\* depot; the compressor of the pipeline between hubs, then that of the depot
ConverterTables ==
    {<<>>,
     <<converter_rule("none", "pass", "pass"),
       converter_rule("compressor", "hub_highPurity", "dist_truckCompressed")>>,
     <<converter_rule("booster", "dist_pipelineLowPurity", "dist_pipelineLowPurity"),
       converter_rule("compressor", "hub_highPurity", "dist_truckCompressed")>>}

\* H.distributors: the three distributors, or the table without truckLiquefied
DistributorTables ==
    {Distributors, SelectSeq(Distributors, LAMBDA r : r.distributor # "truckLiquefied")}

\* H.arcs: as in ArcTables, or a record to a hub that H.nodes does not list
SynthArcTables ==
    ArcTables \cup
    {<< [startNode |-> "A", endNode |-> "C", kmLength_road |-> 1, exist_pipeline |-> 0] >>}

\* find_prices and price_hubs: no tracking, hub A, a hub that H.nodes does not list
PriceSettings ==
    {[find_prices |-> FALSE, price_hubs |-> <<>>],
     [find_prices |-> TRUE, price_hubs |-> <<"A">>],
     [find_prices |-> TRUE, price_hubs |-> <<"C">>],
     [find_prices |-> TRUE, price_hubs |-> all]}

SynthInputs ==
    {Update(Settings(FALSE, ps.find_prices),
            [nodes |-> HubTable, arcs |-> arcs, distributors |-> distributors,
             producers |-> ProducerTable, producers_existing |-> existing,
             demand |-> DemandTable, converters |-> converters,
             price_hubs |-> ps.price_hubs, price_tracking_array |-> <<1, 10>>,
             price_demand |-> 1]) :
        arcs \in SynthArcTables, distributors \in DistributorTables,
        existing \in ExistingTables, converters \in ConverterTables, ps \in PriceSettings}

\* no rule of add_converters is in progress; rule is the next row of H.converters
BetweenRules(rule, cvrow, before) ==
    [rule |-> rule, visiting |-> FALSE, cvrow |-> cvrow, before |-> before]

InitSynth ==
    /\ H \in SynthInputs
    /\ g = EmptyGraph
    /\ m = NoAttrs
    /\ sol = NoAttrs
    /\ todo = <<>>
    /\ pass = BetweenRules(1, NoAttrs, EmptyGraph)
    /\ out = NoAttrs
    /\ pc = "initialize_graph"

\* self.initialize_graph(H)
SynthInitializeGraph ==
    /\ pc = "initialize_graph"
    /\ g' = initialize_graph(H)
    /\ pc' = "add_consumers"
    /\ UNCHANGED <<H, m, sol, todo, pass, out>>

\* self.add_consumers(H)
AddConsumers ==
    /\ pc = "add_consumers"
    /\ g' = Apply(g, add_consumers(H))
    /\ pc' = "add_producers"
    /\ UNCHANGED <<H, m, sol, todo, pass, out>>

\* self.add_producers(H)
AddProducers ==
    /\ pc = "add_producers"
    /\ \A i \in 1..Len(H.producers_existing) : technology_known(H, H.producers_existing[i])
    /\ g' = Apply(g, add_producers(H))
    /\ pc' = "add_converters"
    /\ UNCHANGED <<H, m, sol, todo, pass, out>>

\* self.add_producers(H) raises IndexError
AddProducersFails ==
    /\ pc = "add_producers"
    /\ \E i \in 1..Len(H.producers_existing) : ~technology_known(H, H.producers_existing[i])
    /\ pc' = "error"
    /\ UNCHANGED <<H, g, m, sol, todo, pass, out>>

\* add_converters, lines 520-524: the next row of H.converters; a row whose
\* upstream class is "pass" is passed over, else the nodes are listed
StartRule ==
    /\ pc = "add_converters"
    /\ ~pass.visiting
    /\ pass.rule <= Len(H.converters)
    /\ LET cvrow == H.converters[pass.rule]
       IN  IF cvrow.arc_start_class = "pass"
           THEN /\ pass' = BetweenRules(pass.rule + 1, pass.cvrow, pass.before)
                /\ todo' = todo
           ELSE /\ pass' = [rule |-> pass.rule, visiting |-> TRUE, cvrow |-> cvrow,
                            before |-> g]
                /\ todo' = g.nodes
    /\ UNCHANGED <<H, g, m, sol, pc, out>>

\* add_converters, lines 525-584: the next node of the list
VisitNode ==
    /\ pc = "add_converters"
    /\ pass.visiting
    /\ todo # <<>>
    /\ ~visit_raises(g, H, pass.cvrow, Head(todo))
    /\ LET after == visit(g, H, pass.cvrow, Head(todo))
       IN  /\ g' = after.g
           /\ pass' = [pass EXCEPT !.cvrow = after.cvrow]
    /\ todo' = Tail(todo)
    /\ UNCHANGED <<H, m, sol, pc, out>>

\* add_converters, lines 525-584: the body raises KeyError or IndexError
VisitNodeFails ==
    /\ pc = "add_converters"
    /\ pass.visiting
    /\ todo # <<>>
    /\ visit_raises(g, H, pass.cvrow, Head(todo))
    /\ pc' = "error"
    /\ UNCHANGED <<H, g, m, sol, todo, pass, out>>

\* add_converters: the list of nodes is exhausted, the rule is done
EndRule ==
    /\ pc = "add_converters"
    /\ pass.visiting
    /\ todo = <<>>
    /\ pass' = BetweenRules(pass.rule + 1, pass.cvrow, pass.before)
    /\ UNCHANGED <<H, g, m, sol, todo, pc, out>>

\* H.converters is exhausted; self.add_price_nodes(H), and __init__ returns
AddPriceNodes ==
    /\ pc = "add_converters"
    /\ ~pass.visiting
    /\ pass.rule > Len(H.converters)
    /\ \E price_hubs \in price_hubs_assigned(H, g) :
          /\ H' = [H EXCEPT !.price_hubs = price_hubs]
          /\ "None" \notin SeqToSet(price_hubs)
          /\ g' = Apply(g, add_price_nodes(H'))
    /\ pc' = "returned"
    /\ UNCHANGED <<m, sol, todo, pass, out>>

\* add_price_nodes raises TypeError: price_hubs is "all" and a node of the
\* graph has no hub_name, so that the name of a price node is None + a string
AddPriceNodesFails ==
    /\ pc = "add_converters"
    /\ ~pass.visiting
    /\ pass.rule > Len(H.converters)
    /\ \E price_hubs \in price_hubs_assigned(H, g) :
          /\ H' = [H EXCEPT !.price_hubs = price_hubs]
          /\ "None" \in SeqToSet(price_hubs)
    /\ pc' = "error"
    /\ UNCHANGED <<g, m, sol, todo, pass, out>>

NextSynth ==
    \/ SynthInitializeGraph \/ AddConsumers \/ AddProducers \/ AddProducersFails
    \/ StartRule \/ VisitNode \/ VisitNodeFails \/ EndRule \/ AddPriceNodes
    \/ AddPriceNodesFails

SpecSynth == InitSynth /\ [][NextSynth]_vars

----------------------------------------------------------------------------
(* The run: synthesis of the network, compilation, solve (run.py, main)     *)

\* the row of hub name in H.nodes
run_hub_row(name, build_smr, build_electrolyzer, industry, transport) ==
    Update(hub_table_row(name, PctScale, build_smr, industry),
           [build_electrolyzer |-> build_electrolyzer, transport_tonnesperday |-> transport])

\* a row of H.producers: a technology the model may build
NewProducer(type, purity, tech, min_h2, max_h2, chec) ==
    [type |-> type, purity |-> purity, prod_tech_type |-> tech,
     capital_usd_coefficient |-> 3, kWh_coefficient |-> 1, ng_coefficient |-> 1,
     min_h2 |-> min_h2, max_h2 |-> max_h2, utilization |-> PctScale,
     chec_per_ton |-> chec, co2_emissions_per_h2_tons |-> 2]

\* a row of H.producers_existing: a producer that already stands
ExistingProducer(hub_name, type, capacity, can1, can2) ==
    [hub_name |-> hub_name, type |-> type, capacity_tonPerDay |-> capacity,
     utilization |-> PctScale, can_ccs1 |-> can1, can_ccs2 |-> can2,
     co2_emissions_per_h2_tons |-> 2]

\* a row of H.demand
Consumer(sector, demandType, carbonSensitiveFraction) ==
    [sector |-> sector, demandType |-> demandType,
     carbonSensitiveFraction |-> carbonSensitiveFraction,
     breakevenPrice |-> 3, avoided_emissions_tonsCO2_per_H2 |-> 1]

Smr(min_h2, chec) == NewProducer("smr", "low", "thermal", min_h2, MaxQty, chec)

\* H.get_hubs_list(): the index of the table of hubs
get_hubs_list(nodes) == [i \in 1..Len(nodes) |-> nodes[i].node]

\* get_settings: the setting "all" of price_hubs becomes the list of the hubs
get_settings(nodes, price_hubs) == IF price_hubs = all THEN get_hubs_list(nodes) ELSE price_hubs

\* the inputs of a run: settings and tables
Inputs(settings, nodes, arcs, distributors, producers, existing, demand, converters, price_hubs) ==
    Update(settings,
           [nodes |-> nodes, arcs |-> arcs, distributors |-> distributors,
            producers |-> producers, producers_existing |-> existing,
            demand |-> demand, converters |-> converters,
            price_hubs |-> get_settings(nodes, price_hubs),
            price_tracking_array |-> <<1>>, price_demand |-> 1])

\* hub A with low-purity industry, half of it carbon sensitive, served by the
\* producers of the tables
PipelineInputs(fractional_chec, build_smr, producers, existing) ==
    Inputs(Settings(fractional_chec, FALSE), <<run_hub_row("A", build_smr, 0, 2 * MaxQty, 0)>>, <<>>,
           Distributors, producers, existing, <<Consumer("industry", "lowPurity", 50)>>,
           <<>>, <<>>)

\* hub A with high-purity transport served by an electrolyzer, the trucks
\* loaded through the converters; prices are tracked at the hubs price_hubs
TruckInputs(find_prices, distributors, converters, price_hubs) ==
    Inputs(Settings(FALSE, find_prices), <<run_hub_row("A", 0, 1, 0, MaxQty)>>, <<>>, distributors,
           <<NewProducer("electrolyzer", "high", "electric", 0, MaxQty, PctScale)>>, <<>>,
           <<Consumer("transport", "highPurity", 0)>>, converters, price_hubs)

\* the compressor before the depot of the compressed trucks
Compressor == <<converter_rule("compressor", "hub_highPurity", "dist_truckCompressed")>>

\* hubs A and B joined by one record; A has industry and nobody produces
TwoHubInputs(arcs) ==
    Inputs(Settings(FALSE, FALSE), <<run_hub_row("A", 0, 0, 2 * MaxQty, 0), run_hub_row("B", 0, 0, 0, 0)>>, arcs,
           Distributors, <<Smr(0, 0)>>, <<>>, <<Consumer("industry", "lowPurity", 50)>>,
           <<>>, <<>>)

\* the table of distributors without the liquefied trucks
NoLiquefied == SelectSeq(Distributors, LAMBDA r : r.distributor # "truckLiquefied")

RunInputs ==
    {PipelineInputs(FALSE, 1, <<Smr(lo, chec)>>, <<>>) : lo \in 0..1, chec \in {0, PctScale}}
    \cup
    {PipelineInputs(frac, 0, <<Smr(0, 0)>>, <<ExistingProducer("A", "smr", MaxQty, can1, 1)>>) :
        frac \in BOOLEAN, can1 \in 0..1}
    \cup
    {TruckInputs(FALSE, Distributors, Compressor, <<>>),
     TruckInputs(TRUE, Distributors, Compressor, <<"A">>)}
    \cup
    \* a record of H.arcs that is flagged as an existing pipeline
    {TwoHubInputs(arcs) : arcs \in {t \in ArcTables : t # <<>> /\ t[1].exist_pipeline = 1}}
    \cup
    \* an existing producer whose row has no capacity; one of a technology
    \* that H.producers does not list
    {PipelineInputs(FALSE, 0, <<Smr(0, 0)>>,
                    <<Without(ExistingProducer("A", "smr", MaxQty, 1, 0), "capacity_tonPerDay")>>),
     PipelineInputs(FALSE, 0, <<Smr(0, 0)>>, <<ExistingProducer("A", "atr", MaxQty, 1, 0)>>)}
    \cup
    \* no liquefied trucks: their node is written by the arcs only; with a
    \* converter rule, and with prices tracked at every hub
    {TruckInputs(FALSE, NoLiquefied, Compressor, <<>>),
     TruckInputs(TRUE, NoLiquefied, <<>>, all)}

Init ==
    /\ H \in RunInputs
    /\ g = EmptyGraph
    /\ m = NoAttrs
    /\ sol = NoAttrs
    /\ todo = <<>>
    /\ pass = BetweenRules(1, NoAttrs, EmptyGraph)
    /\ out = NoAttrs
    /\ pc = "initialize_graph"

\* add_price_nodes does not raise: price_hubs is a list of hubs after get_settings
Next ==
    \/ SynthInitializeGraph \/ AddConsumers \/ AddProducers \/ AddProducersFails
    \/ StartRule \/ VisitNode \/ VisitNodeFails \/ EndRule \/ AddPriceNodes
    \/ Compile \/ CompileFails \/ SolveNode \/ SolveArc \/ SolverReturns

Spec == Init /\ [][Next]_vars

----------------------------------------------------------------------------
(* Properties of the converter pass                                        *)

\* the state right after the loop over the nodes has ended for a rule
AfterPass ==
    /\ pc = "add_converters"
    /\ ~pass.visiting
    /\ pass.rule > 1
    /\ H.converters[pass.rule - 1].arc_start_class # "pass"

\* the arcs of G from a node of the upstream class to a node of the downstream class
matching_arcs(G, cvrow) ==
    SelectSeq(G.edges, LAMBDA s : /\ Get(G.ndata[s[1]], "class", "") = cvrow.arc_start_class
                                  /\ Get(G.ndata[s[2]], "class", "") = cvrow.arc_end_class)

\* the converter of the rule at the hub of node s of G
converter_of(G, cvrow, s) == G.ndata[s].hub_name \o "_converter_" \o cvrow.converter

\* C13: right after the pass of a rule {upstream -> downstream}, no arc joins
\* a node of the upstream class to a node of the downstream class, and every
\* such arc (s, e) of the network before the pass is gone, replaced by an arc
\* s -> converter with zero costs and the flow limit of the removed arc and by
\* an arc converter -> e with every attribute of the removed arc but its start.
C13_ConverterPass ==
    AfterPass =>
        /\ matching_arcs(g, pass.cvrow) = <<>>
        /\ \A e \in SeqToSet(matching_arcs(pass.before, pass.cvrow)) :
              LET removed == pass.before.edata[e]
                  conv == converter_of(pass.before, pass.cvrow, e[1])
              IN  /\ e \notin DOMAIN g.edata
                  /\ <<e[1], conv>> \in DOMAIN g.edata
                  /\ g.edata[<<e[1], conv>>].capital_usdPerUnit = 0
                  /\ g.edata[<<e[1], conv>>].fixed_usdPerUnitPerDay = 0
                  /\ g.edata[<<e[1], conv>>].variable_usdPerTon = 0
                  /\ g.edata[<<e[1], conv>>].flowLimit_tonsPerDay = removed.flowLimit_tonsPerDay
                  /\ <<conv, e[2]>> \in DOMAIN g.edata
                  /\ \A k \in DOMAIN removed \ {"startNode"} :
                        /\ k \in DOMAIN g.edata[<<conv, e[2]>>]
                        /\ g.edata[<<conv, e[2]>>][k] = removed[k]

\* a pass has rewritten an arc that costs capital and has a finite flow limit
C13_Witness ==
    /\ AfterPass
    /\ \E e \in SeqToSet(matching_arcs(pass.before, pass.cvrow)) :
          /\ pass.before.edata[e].capital_usdPerUnit > 0
          /\ pass.before.edata[e].flowLimit_tonsPerDay < FlowUnlimited
          /\ <<converter_of(pass.before, pass.cvrow, e[1]), e[2]>> \in DOMAIN g.edata

\* the pass of a rule done in two stages: the arcs that match the rule are
\* collected in the network G0 as it stood before the pass, then, node after
\* node of G0, the converter is written and the collected arcs are rewritten
RECURSIVE staged_pass(_, _, _, _, _)
staged_pass(G, G0, HH, cvrow, nodes) ==
    IF nodes = <<>> THEN G
    ELSE LET n == Head(nodes)
             collected == SelectSeq(matching_arcs(G0, cvrow), LAMBDA s : s[1] = n)
             after == visit_edges(G, HH, cvrow, n, collected)
         IN  IF G0.ndata[n]["class"] # cvrow.arc_start_class
             THEN staged_pass(G, G0, HH, cvrow, Tail(nodes))
             ELSE staged_pass(after.g, G0, HH, after.cvrow, Tail(nodes))

\* C14: the network after the pass of a rule is the network the staged pass
\* yields: every arc that matched before the pass is rewritten, and nothing
\* the pass created is matched by it.
C14_StagedPass ==
    AfterPass =>
        g = staged_pass(pass.before, pass.before, H, H.converters[pass.rule - 1],
                        pass.before.nodes)

\* a pass has rewritten the pipeline arcs of both directions between two hubs,
\* so that an arc it created ends at a node of the upstream class
C14_Witness ==
    /\ AfterPass
    /\ Len(matching_arcs(pass.before, pass.cvrow)) >= 2
    /\ \E e \in DOMAIN g.edata :
          /\ e \notin DOMAIN pass.before.edata
          /\ g.ndata[e[2]]["class"] = pass.cvrow.arc_start_class

----------------------------------------------------------------------------
(* Properties of the returned network                                      *)

Returned == pc = "returned"

\* the hubs H.nodes lists
HubNames == {H.nodes[i].node : i \in 1..Len(H.nodes)}

\* C15 as stated: in the network the synthesizer returns, both endpoints of
\* every arc are nodes written with a class and an owning hub.
C15_AsStated ==
    Returned =>
        \A e \in DOMAIN g.edata : \A n \in {e[1], e[2]} :
            {"class", "hub_name"} \subseteq DOMAIN g.ndata[n]

\* C16 as stated: the synthesizer returns no network when a row of
\* H.producers_existing or of H.arcs names a hub that H.nodes does not list,
\* or a row of H.producers_existing names a technology that H.producers does
\* not list.
C16_AsStated ==
    Returned =>
        /\ \A i \in 1..Len(H.producers_existing) :
              /\ H.producers_existing[i].hub_name \in HubNames
              /\ technology_known(H, H.producers_existing[i])
        /\ \A i \in 1..Len(H.arcs) :
              H.arcs[i].startNode \in HubNames /\ H.arcs[i].endNode \in HubNames

\* the state right after initialize_graph
Initialized == pc = "add_consumers"

\* capital_pm of the hub named name
capital_pm_of(name) == SelectSeq(H.nodes, LAMBDA r : r.node = name)[1].capital_pm

\* C17: for every record of H.arcs between two listed hubs and every purity,
\* initialize_graph writes a pipeline arc in each direction; the two have the
\* same capital, fixed and variable cost and flow limit, and the capital cost
\* is the pipeline's capital cost x the road length x the mean of the capital
\* multipliers of the two hubs (multipliers in hundredths).
C17_PipelinePairs ==
    Initialized =>
        \A i \in 1..Len(H.arcs) : \A purity_type \in {"LowPurity", "HighPurity"} :
            LET r == H.arcs[i]
                there == <<r.startNode \o "_dist_pipeline" \o purity_type,
                           r.endNode \o "_dist_pipeline" \o purity_type>>
                back == <<there[2], there[1]>>
            IN  (r.startNode \in HubNames /\ r.endNode \in HubNames /\ r.startNode # r.endNode) =>
                    /\ there \in DOMAIN g.edata
                    /\ back \in DOMAIN g.edata
                    /\ \A k \in {"capital_usdPerUnit", "fixed_usdPerUnitPerDay",
                                 "variable_usdPerTon", "flowLimit_tonsPerDay"} :
                          g.edata[there][k] = g.edata[back][k]
                    /\ g.edata[there].capital_usdPerUnit * 2 * PctScale
                          = distributor_row(H, "pipeline").capital_usdPerUnit * r.kmLength_road
                            * (capital_pm_of(r.startNode) + capital_pm_of(r.endNode))

\* a record joins two hubs of different capital multipliers and its pipeline costs capital
C17_Witness ==
    /\ Initialized
    /\ \E i \in 1..Len(H.arcs) :
          /\ H.arcs[i].startNode \in HubNames /\ H.arcs[i].endNode \in HubNames
          /\ capital_pm_of(H.arcs[i].startNode) # capital_pm_of(H.arcs[i].endNode)
          /\ <<H.arcs[i].endNode \o "_dist_pipelineHighPurity",
                H.arcs[i].startNode \o "_dist_pipelineHighPurity">> \in DOMAIN g.edata
          /\ g.edata[<<H.arcs[i].endNode \o "_dist_pipelineHighPurity",
                        H.arcs[i].startNode \o "_dist_pipelineHighPurity">>].capital_usdPerUnit > 0

----------------------------------------------------------------------------
(* Solution decomposer: create_outputs_dfs and create_output_dict           *)
(* (generate_outputs.py). Tons are counted in millionths, so that the       *)
(* tolerance 1e-3 is 1000; prices are whole dollars.                        *)

\* the longest probe price of the ladder
MaxPrice == 2

\* tol = 1e-3
tol == 1000

\* the test of a key quantity against tol, if a row at the tolerance were kept
above_tol_or_equal(x) == x >= tol

\* x > tol
above_tol(x) == x > tol

Abs(x) == IF x < 0 THEN -x ELSE x

\* numpy.isclose(a, b): |a - b| <= atol + rtol * |b| with atol = 1e-8 and
\* rtol = 1e-5, that is 100000 * |a - b| <= 1000 + |b| in millionths
isclose(a, b) == Abs(a - b) <= (1000 + Abs(b)) \div 100000

\* Python's s.startswith(prefix)
startswith(s, prefix) == Len(s) >= Len(prefix) /\ SubSeq(s, 1, Len(prefix)) = prefix

\* the position of the first "_" of s, Len(s) + 1 when there is none
first_underscore(s) ==
    LET at == {i \in 1..Len(s) : SubSeq(s, i, i) = "_"}
    IN  IF at = {} THEN Len(s) + 1 ELSE CHOOSE i \in at : \A j \in at : i <= j

\* s.split("_")[0]
split_first(s) == SubSeq(s, 1, first_underscore(s) - 1)

\* "_".join(s.split("_")[1:])
split_rest(s) == SubSeq(s, first_underscore(s) + 1, Len(s))

\* "_".join(s.split("_")[-1:])
split_last(s) ==
    LET at == {i \in 1..Len(s) : SubSeq(s, i, i) = "_"}
    IN  IF at = {} THEN s
        ELSE SubSeq(s, (CHOOSE i \in at : \A j \in at : i >= j) + 1, Len(s))

\* create_outputs_dfs, lines 360-376: the rows one tracked hub adds to
\* price_hub_min for one demand type
breakeven_price_at_hub(HH, consumption, demand_type, price_hub) ==
    LET price_hubs_df_all ==
            SelectSeq(consumption, LAMBDA r : /\ Contains(demand_type, r.consumer)
                                              /\ isclose(r.cons_h, HH.price_demand))
        local_price_hub_df ==
            SelectSeq(price_hubs_df_all, LAMBDA r : Contains(price_hub, r.consumer))
        min == CHOOSE x \in {local_price_hub_df[i].cons_price : i \in 1..Len(local_price_hub_df)} :
                   \A i \in 1..Len(local_price_hub_df) : x <= local_price_hub_df[i].cons_price
    IN  IF local_price_hub_df = <<>> THEN <<>>
        ELSE SelectSeq(local_price_hub_df, LAMBDA r : r.cons_price = min)

\* create_outputs_dfs, lines 345-376: price_hub_min
price_hub_min(HH, consumption) ==
    LET demand_types == <<"priceFuelStation", "priceLowPurity", "priceHighPurity">>
    IN  IF ~HH.find_prices THEN <<>>
        ELSE Concat([k \in 1..3 |->
                Concat([i \in 1..Len(HH.price_hubs) |->
                   breakeven_price_at_hub(HH, consumption, demand_types[k], HH.price_hubs[i])])])

\* _join_multiple_dfs, na_value: the cell of a column that has no value for
\* the row (a "n/a" in the source, which is equal to no number)
na == -1

\* create_outputs_dfs, line 385: the production table after the tolerance
\* filter, and line 406
production_filtered(dfs) ==
    LET prod == SelectSeq(dfs.production, LAMBDA r : above_tol(r.prod_capacity))
    IN  [i \in 1..Len(prod) |-> Update(prod[i], [ccs_retrofit_variable_costs |-> 0])]

\* a selector that takes a producer retrofitted with either technology
ccs_any_built(r, ccs_v) == r.ccs1_built = 1 \/ r.ccs2_built = 1

\* create_outputs_dfs, line 423: df_filter for technology ccs_v
ccs_built(r, ccs_v) == r["ccs" \o str(ccs_v) \o "_built"] = 1

\* create_outputs_dfs, lines 423-444, one technology: the six columns of the
\* rows under df_filter, every new value computed from the columns as they
\* are when the technology's turn starts (fractions in hundredths)
retrofit(HH, prod, ccs_v) ==
    LET ccs == "ccs" \o str(ccs_v)
        ccs_percent == HH[ccs \o "_percent_co2_captured"]
        ccs_tax == HH[ccs \o "_h2_tax_credit"]
        ccs_variable == HH[ccs \o "_variable_usdPerTon"]
        chec_per_ton == IF HH.fractional_chec THEN ccs_percent ELSE PctScale
    IN  [i \in 1..Len(prod) |->
            IF ccs_built(prod[i], ccs_v)
            THEN [prod[i] EXCEPT
                    !.prod_checs = prod[i][ccs \o "_checs"],
                    !.ccs_retrofit_variable_costs =
                        (prod[i].prod_h * prod[i].co2_emissions_rate * ccs_percent * ccs_variable)
                            \div PctScale,
                    !.co2_emissions_rate =
                        (prod[i].co2_emissions_rate * (PctScale - ccs_percent)) \div PctScale,
                    !.chec_per_ton = chec_per_ton,
                    !.ccs_capture_rate = ccs_percent,
                    !.h2_tax_credit = ccs_tax]
            ELSE prod[i]]

\* create_outputs_dfs, lines 409-444: the technologies in the order given
RECURSIVE retrofit_in_order(_, _, _)
retrofit_in_order(HH, prod, order) ==
    IF order = <<>> THEN prod
    ELSE retrofit_in_order(HH, retrofit(HH, prod, Head(order)), Tail(order))

\* create_outputs_dfs, line 465: a "n/a" cell becomes 0
replace_na(x) == IF x = na THEN 0 ELSE x

\* create_outputs_dfs, lines 449-485: the columns kept of a production row,
\* the tax credit of the day and the CO2 emitted
production_columns(r) ==
    [producer |-> r.producer,
     prod_capacity |-> r.prod_capacity,
     prod_h |-> r.prod_h,
     h2_tax_credit |-> replace_na(r.h2_tax_credit) * r.prod_h,
     co2_emissions_rate |-> r.co2_emissions_rate,
     ccs_capture_rate |-> replace_na(r.ccs_capture_rate),
     chec_per_ton |-> replace_na(r.chec_per_ton),
     prod_checs |-> replace_na(r.prod_checs),
     ccs_retrofit_variable_costs |-> r.ccs_retrofit_variable_costs,
     co2_emitted |-> r.co2_emissions_rate * r.prod_h]

\* create_outputs_dfs, lines 405-444: the production table after the
\* retrofit post-processing
production_retrofitted(HH, dfs) == retrofit_in_order(HH, production_filtered(dfs), <<1, 2>>)

\* create_outputs_dfs, lines 379-512: the four tables after the rows at or
\* under the tolerance, and those that carry the probe demand, are dropped,
\* the discovered prices are put back and the production table is
\* post-processed
create_outputs_dfs(HH, dfs) ==
    LET price_hub_demand == IF HH.find_prices THEN HH.price_demand ELSE 0
        prod == production_retrofitted(HH, dfs)
    IN  [production |-> [i \in 1..Len(prod) |-> production_columns(prod[i])],
         consumption |->
             SelectSeq(dfs.consumption, LAMBDA r : /\ above_tol(r.cons_h)
                                                   /\ ~isclose(r.cons_h, price_hub_demand))
             \o price_hub_min(HH, dfs.consumption),
         conversion |-> SelectSeq(dfs.conversion, LAMBDA r : above_tol(r.conv_capacity)),
         distribution |->
             SelectSeq(dfs.distribution, LAMBDA r : /\ above_tol(r.dist_h)
                                                    /\ ~isclose(r.dist_h, price_hub_demand))]

\* DataFrame.to_dict("index") raises ValueError unless the index is unique
index_is_unique(keys) == \A i, j \in 1..Len(keys) : keys[i] = keys[j] => i = j

\* a dict written from the (key, value) pairs of a table, a later pair
\* replacing an earlier one of the same key
to_dict(keys, values) ==
    [k \in SeqToSet(keys) |->
        values[CHOOSE i \in 1..Len(keys) : keys[i] = k /\ \A j \in 1..Len(keys) : keys[j] = k => j <= i]]

\* _create_hub_data(df, hub, start) for start = -1 (from_second FALSE) and
\* start = 1 (from_second TRUE): the rows whose name starts with hub + "_",
\* under the end of their name; set_index moves the name out of the columns
create_hub_data(df, index_column, hub, from_second) ==
    LET rows == SelectSeq(df, LAMBDA r : startswith(r[index_column], hub \o "_"))
    IN  to_dict([i \in 1..Len(rows) |->
                    IF from_second THEN split_rest(rows[i][index_column])
                    ELSE split_last(rows[i][index_column])],
                [i \in 1..Len(rows) |-> Without(rows[i], index_column)])

\* _create_hub_distribution_data, lines 219-220: str.contains(hub_string)
names_hub(endpoint, hub_string) == Contains(hub_string, endpoint)

\* the key of a row of local, and of a row of outgoing or incoming
local_key(r, hub_string) ==
    Remove(r.arc_start, hub_string) \o "_TO_" \o Remove(r.arc_end, hub_string)
out_in_key(r, hub_string) == Remove(r.arc_start, hub_string) \o "_TO_" \o r.arc_end

\* _create_hub_distribution_data, lines 233-245: _out_in_add_info
out_in_add_info(df, hub_string) ==
    LET rows == SelectSeq(df, LAMBDA r : r.dist_h > 0)
    IN  to_dict([i \in 1..Len(rows) |-> out_in_key(rows[i], hub_string)],
                [i \in 1..Len(rows) |->
                    [source |-> split_first(rows[i].arc_start),
                     source_class |-> Remove(rows[i].arc_start, hub_string),
                     arc_end |-> rows[i].arc_end,
                     destination |-> split_first(rows[i].arc_end),
                     destination_class |-> split_rest(rows[i].arc_end),
                     dist_h |-> rows[i].dist_h]])

\* _create_hub_distribution_data(df, hub)
create_hub_distribution_data(df, hub) ==
    LET hub_string == hub \o "_"
        arc_start(r) == names_hub(r.arc_start, hub_string)
        arc_end(r) == names_hub(r.arc_end, hub_string)
        local == SelectSeq(df, LAMBDA r : arc_start(r) /\ arc_end(r))
        outgoing == SelectSeq(df, LAMBDA r : arc_start(r) /\ ~arc_end(r))
        incoming == SelectSeq(df, LAMBDA r : arc_end(r) /\ ~arc_start(r))
    IN  [local |-> to_dict([i \in 1..Len(local) |-> local_key(local[i], hub_string)],
                           [i \in 1..Len(local) |->
                               [source_class |-> Remove(local[i].arc_start, hub_string),
                                destination_class |-> Remove(local[i].arc_end, hub_string),
                                dist_h |-> local[i].dist_h]]),
         outgoing |-> out_in_add_info(outgoing, hub_string),
         incoming |-> out_in_add_info(incoming, hub_string)]

\* create_output_dict(H): the four entries of every hub
create_output_dict(HH, dfs) ==
    [hub \in SeqToSet(HH.hubs_list) |->
        [production |-> create_hub_data(dfs.production, "producer", hub, FALSE),
         conversion |-> create_hub_data(dfs.conversion, "convertor", hub, FALSE),
         consumption |-> create_hub_data(dfs.consumption, "consumer", hub, TRUE),
         distribution |-> create_hub_distribution_data(dfs.distribution, hub)]]

\* _create_hub_data raises: the rows of the hub do not have distinct names
create_hub_data_raises(df, index_column, hub, from_second) ==
    LET rows == SelectSeq(df, LAMBDA r : startswith(r[index_column], hub \o "_"))
    IN  ~index_is_unique([i \in 1..Len(rows) |->
                             IF from_second THEN split_rest(rows[i][index_column])
                             ELSE split_last(rows[i][index_column])])

\* _create_hub_distribution_data raises: two rows of local, of outgoing or
\* of incoming have the same key
create_hub_distribution_data_raises(df, hub) ==
    LET hub_string == hub \o "_"
        arc_start(r) == names_hub(r.arc_start, hub_string)
        arc_end(r) == names_hub(r.arc_end, hub_string)
        local == SelectSeq(df, LAMBDA r : arc_start(r) /\ arc_end(r))
        outgoing == SelectSeq(df, LAMBDA r : arc_start(r) /\ ~arc_end(r) /\ r.dist_h > 0)
        incoming == SelectSeq(df, LAMBDA r : arc_end(r) /\ ~arc_start(r) /\ r.dist_h > 0)
    IN  \/ ~index_is_unique([i \in 1..Len(local) |-> local_key(local[i], hub_string)])
        \/ ~index_is_unique([i \in 1..Len(outgoing) |-> out_in_key(outgoing[i], hub_string)])
        \/ ~index_is_unique([i \in 1..Len(incoming) |-> out_in_key(incoming[i], hub_string)])

\* create_output_dict raises: one of the calls of lines 561-566 does
create_output_dict_raises(HH, dfs) ==
    \E hub \in SeqToSet(HH.hubs_list) :
        \/ create_hub_data_raises(dfs.production, "producer", hub, FALSE)
        \/ create_hub_data_raises(dfs.conversion, "convertor", hub, FALSE)
        \/ create_hub_data_raises(dfs.consumption, "consumer", hub, TRUE)
        \/ create_hub_distribution_data_raises(dfs.distribution, hub)

\* H.write_output_dataframes(): one file per table
csv_files == {"production.csv", "conversion.csv", "consumption.csv", "distribution.csv"}

----------------------------------------------------------------------------
(* The decomposer as a process, on the joined tables of a solved model      *)

\* H.get_hubs_list(): two hubs, the name of the first being or not the end
\* of the name of the second
HubLists == {<<"A", "B">>, <<"A", "BA">>}

\* find_prices, price_hubs (every hub, or the first) and price_demand
\* (0.0005 or 0.1 ton)
OutputSettings ==
    {[find_prices |-> fp, hubs_list |-> hubs, price_hubs |-> SubSeq(hubs, 1, k),
      price_demand |-> demand, fractional_chec |-> fc,
      ccs1_percent_co2_captured |-> 50, ccs1_h2_tax_credit |-> 1, ccs1_variable_usdPerTon |-> 2,
      ccs2_percent_co2_captured |-> 90, ccs2_h2_tax_credit |-> 3, ccs2_variable_usdPerTon |-> 4] :
        fp \in BOOLEAN, hubs \in HubLists, demand \in {500, 100000}, k \in 1..2,
        fc \in BOOLEAN}

\* the quantities a key column takes: nothing, under, at and over the
\* tolerance (and, in InitOutputs, the probe demand)
Quantities == {0, tol - 1, tol, tol + 1}

\* the row of a probe in the joined consumption table
probe_row(HH, ph, demand_type, p, cons_h) ==
    [consumer |-> ph \o "_price" \o cap_first(demand_type) \o "_" \o str(p),
     cons_h |-> cons_h, cons_price |-> p * 1000, cons_size |-> HH.price_demand]

\* the rows of the probes of one hub and one demand type, those of the
\* prices in buying taking the probe demand less short
probe_rows(HH, ph, demand_type, buying, short) ==
    [p \in 1..MaxPrice |->
        probe_row(HH, ph, demand_type, p, IF p \in buying THEN HH.price_demand - short ELSE 0)]

\* the row of a new producer in the joined production table: the columns of
\* the retrofit variables have no value
new_producer_row(name, prod_capacity, prod_h) ==
    [producer |-> name, prod_capacity |-> prod_capacity, prod_h |-> prod_h,
     ccs1_built |-> na, ccs2_built |-> na, ccs1_checs |-> na, ccs2_checs |-> na,
     prod_checs |-> prod_h \div 2, co2_emissions_rate |-> 10, ccs_capture_rate |-> 0,
     chec_per_ton |-> 50, h2_tax_credit |-> 2]

\* the row of an existing producer, retrofitted with technology ccs (1 or 2)
\* or not (0): the columns of the parameters and variables of new producers
\* have no value
existing_producer_row(name, prod_capacity, prod_h, ccs) ==
    [producer |-> name, prod_capacity |-> prod_capacity, prod_h |-> prod_h,
     ccs1_built |-> IF ccs = 1 THEN 1 ELSE 0, ccs2_built |-> IF ccs = 2 THEN 1 ELSE 0,
     ccs1_checs |-> IF ccs = 1 THEN prod_h \div 2 ELSE 0,
     ccs2_checs |-> IF ccs = 2 THEN prod_h ELSE 0,
     prod_checs |-> na, co2_emissions_rate |-> 10, ccs_capture_rate |-> na,
     chec_per_ton |-> na, h2_tax_credit |-> na]

\* the joined tables of a solved model: the key quantity q is that of one
\* producer, one converter, one consumer and one arc between the hubs, and
\* ccs the retrofit of the existing producer
SolvedTables(HH, q, buying1, buying2, fuel, short, ccs) ==
    LET h1 == HH.hubs_list[1]
        h2 == HH.hubs_list[2]
        probes(ph) ==
            probe_rows(HH, ph, "lowPurity", IF ph = h1 THEN buying1 ELSE buying2, short)
            \o probe_rows(HH, ph, "fuelStation", IF fuel THEN 1..MaxPrice ELSE {}, short)
    IN  [production |->
            << new_producer_row(h1 \o "_production_smr", q, q),
               new_producer_row(h2 \o "_production_smr", 5000, 5000),
               existing_producer_row(h2 \o "_production_smrExisting", 5000, 4000, ccs) >>,
         conversion |->
            << [convertor |-> h1 \o "_converter_compressor", conv_capacity |-> 5000],
               [convertor |-> h2 \o "_converter_compressor", conv_capacity |-> q] >>,
         consumption |->
            << [consumer |-> h1 \o "_demandSector_industry", cons_h |-> 5000,
                cons_price |-> 3000, cons_size |-> 5000],
               [consumer |-> h2 \o "_demandSector_industry", cons_h |-> q,
                cons_price |-> 3000, cons_size |-> 5000] >>
            \o (IF HH.find_prices
                THEN Concat([i \in 1..Len(HH.price_hubs) |-> probes(HH.price_hubs[i])])
                ELSE <<>>),
         distribution |->
            << [arc_start |-> h1 \o "_hub_lowPurity", arc_end |-> h1 \o "_dist_pipelineLowPurity",
                dist_h |-> 5000],
               [arc_start |-> h1 \o "_dist_pipelineLowPurity",
                arc_end |-> h2 \o "_dist_pipelineLowPurity", dist_h |-> q],
               [arc_start |-> h2 \o "_dist_pipelineLowPurity", arc_end |-> h2 \o "_demand_lowPurity",
                dist_h |-> 5000] >>]

InitOutputs ==
    /\ H \in OutputSettings
    /\ \E q \in Quantities \cup {H.price_demand}, buying1 \in SUBSET (1..MaxPrice), buying2 \in SUBSET (1..MaxPrice),
          fuel \in BOOLEAN, short \in 0..1, ccs \in 0..2 :
          sol = SolvedTables(H, q, buying1, buying2, fuel, short, ccs)
    /\ g = EmptyGraph
    /\ m = NoAttrs
    /\ todo = <<>>
    /\ pass = NoAttrs
    /\ out = NoAttrs
    /\ pc = "create_outputs_dfs"

\* H.output_dfs = create_outputs_dfs(m, H)
CreateOutputsDfs ==
    /\ pc = "create_outputs_dfs"
    /\ out' = [dfs |-> create_outputs_dfs(H, sol), price_hub_min |-> price_hub_min(H, sol.consumption),
               files |-> {}]
    /\ pc' = "write_output_dataframes"
    /\ UNCHANGED <<H, g, m, sol, todo, pass>>

\* main, args.output_csvs (the default): H.write_output_dataframes()
WriteOutputDataframes ==
    /\ pc = "write_output_dataframes"
    /\ out' = Update(out, [files |-> out.files \cup csv_files])
    /\ pc' = "create_output_dict"
    /\ UNCHANGED <<H, g, m, sol, todo, pass>>

\* main, args.output_json (the default): create_output_dict(H) raises and
\* the exception leaves main
CreateOutputDictFails ==
    /\ pc = "create_output_dict"
    /\ create_output_dict_raises(H, out.dfs)
    /\ pc' = "error"
    /\ UNCHANGED <<H, g, m, sol, todo, pass, out>>

\* H.output_dict = create_output_dict(H)
CreateOutputDict ==
    /\ pc = "create_output_dict"
    /\ ~create_output_dict_raises(H, out.dfs)
    /\ out' = Update(out, [hub_dict |-> create_output_dict(H, out.dfs)])
    /\ pc' = "write_output_dict"
    /\ UNCHANGED <<H, g, m, sol, todo, pass>>

\* H.write_output_dict()
WriteOutputDict ==
    /\ pc = "write_output_dict"
    /\ out' = Update(out, [files |-> out.files \cup {"outputs.json"}])
    /\ pc' = "create_plot"
    /\ UNCHANGED <<H, g, m, sol, todo, pass>>

\* main, args.output_fig (the default), after the JSON document:
\* create_plot(H).savefig(H.outputs_dir / "fig.png"), the last step of main
CreatePlot ==
    /\ pc = "create_plot"
    /\ out' = Update(out, [files |-> out.files \cup {"fig.png"}])
    /\ pc' = "outputs"
    /\ UNCHANGED <<H, g, m, sol, todo, pass>>

NextOutputs ==
    \/ CreateOutputsDfs
    \/ WriteOutputDataframes
    \/ CreateOutputDictFails
    \/ CreateOutputDict
    \/ WriteOutputDict
    \/ CreatePlot

SpecOutputs == InitOutputs /\ [][NextOutputs]_vars

----------------------------------------------------------------------------
(* create_output_dict statement by statement, on data frames held by       *)
(* reference                                                                *)

\* a pandas DataFrame: its rows, index columns included, and the names of
\* the columns that form its index (none: the default index)
DataFrame(rows, index) == [rows |-> rows, index |-> index]

\* df.reset_index(inplace=True), as at line 73: the frame that df refers to
\* is changed
reset_index_inplace(heap, df) ==
    [heap |-> [heap EXCEPT ![df] = DataFrame(heap[df].rows, <<>>)], df |-> df]

\* df.reset_index(): a new frame, the index moved into the columns
reset_index(heap, df) ==
    [heap |-> Append(heap, DataFrame(heap[df].rows, <<>>)), df |-> Len(heap) + 1]

\* a Series computed from the rows of the frame that df refers to
series(heap, df, value(_)) == [i \in 1..Len(heap[df].rows) |-> value(heap[df].rows[i])]

\* df[mask], mask a boolean Series: a new frame of the rows under the mask
getitem(heap, df, mask) ==
    LET under == SelectSeq([i \in 1..Len(mask) |-> i], LAMBDA i : mask[i])
    IN  [heap |-> Append(heap, DataFrame([k \in 1..Len(under) |-> heap[df].rows[under[k]]],
                                         heap[df].index)),
         df |-> Len(heap) + 1]

\* df[column] = values: written into the frame that df refers to
setitem(heap, df, column, values) ==
    LET frame == heap[df]
    IN  [heap EXCEPT ![df] =
            DataFrame([i \in 1..Len(frame.rows) |-> Update(frame.rows[i], column :> values[i])],
                      frame.index)]

\* df.index = values: written into the frame that df refers to; the labels
\* of an index without a name are kept under "index"
setattr_index(heap, df, values) ==
    LET frame == heap[df]
    IN  [heap EXCEPT ![df] =
            DataFrame([i \in 1..Len(frame.rows) |-> Update(frame.rows[i], "index" :> values[i])],
                      <<"index">>)]

\* df.set_index(column): a new frame
set_index(heap, df, column) ==
    [heap |-> Append(heap, DataFrame(heap[df].rows, <<column>>)), df |-> Len(heap) + 1]

\* df.rename(columns={...}): a new frame
rename(heap, df, columns) ==
    LET to(c) == IF c \in DOMAIN columns THEN columns[c] ELSE c
        renamed(row) ==
            [k \in {to(c) : c \in DOMAIN row} |-> row[CHOOSE c \in DOMAIN row : to(c) = k]]
        frame == heap[df]
    IN  [heap |-> Append(heap, DataFrame([i \in 1..Len(frame.rows) |-> renamed(frame.rows[i])],
                                         frame.index)),
         df |-> Len(heap) + 1]

\* the labels of a frame with an index of one column
labels(frame) == [i \in 1..Len(frame.rows) |-> frame.rows[i][frame.index[1]]]

\* df.to_dict("index"), which raises ValueError unless the labels are unique
frame_to_dict(frame) ==
    to_dict(labels(frame),
            [i \in 1..Len(frame.rows) |-> Without(frame.rows[i], frame.index[1])])

\* the four frames of H.output_dfs: the index of the first three is set at
\* line 342, that of distribution by _tuple_split
output_frames(dfs) ==
    << DataFrame(dfs.production, <<"producer">>),
       DataFrame(dfs.conversion, <<"convertor">>),
       DataFrame(dfs.consumption, <<"consumer">>),
       DataFrame(dfs.distribution, <<"arc_start", "arc_end">>) >>

\* H.output_dfs: the frame each key refers to
output_dfs_refs == [production |-> 1, conversion |-> 2, consumption |-> 3, distribution |-> 4]

\* create_output_dict, lines 562-566: the table handled after table
next_table(table) ==
    CASE table = "production" -> "conversion"
      [] table = "conversion" -> "consumption"
      [] table = "consumption" -> "distribution"

\* a helper has returned: the frames it made are released
release(o) ==
    [o EXCEPT !.heap = SubSeq(o.heap, 1, Cardinality(DOMAIN o.output_dfs)),
              !.df = 0, !.index_column = "", !.local = 0, !.outgoing = 0, !.incoming = 0]

\* a helper is called on dfs[table] for the hub at position hub: its
\* parameter df refers to the caller's frame
call_helper(o, hub, table) ==
    [release(o) EXCEPT !.hub = hub, !.table = table, !.df = o.output_dfs[table]]

\* the settings and the solved models the decomposition is run on
DecomposeSettings == {s \in OutputSettings : s.price_demand = 500 /\ ~s.fractional_chec}

InitDecompose ==
    /\ H \in DecomposeSettings
    /\ \E q \in Quantities \cup {H.price_demand}, buying1 \in {{}, {1}}, buying2 \in {{}, {1}},
          ccs \in 0..1 :
          sol = SolvedTables(H, q, buying1, buying2, FALSE, 0, ccs)
    /\ g = EmptyGraph
    /\ m = NoAttrs
    /\ todo = <<>>
    /\ pass = NoAttrs
    /\ out = [heap |-> output_frames(create_outputs_dfs(H, sol)), output_dfs |-> output_dfs_refs,
              hub_dict |-> NoAttrs, returned |-> <<>>, hub |-> 0, table |-> "",
              index_column |-> "", df |-> 0, local |-> 0, outgoing |-> 0, incoming |-> 0]
    /\ pc = "create_output_dict"

\* create_output_dict, lines 557-561: an empty dict for every hub, and the
\* first call of _create_hub_data
EnterCreateOutputDict ==
    /\ pc = "create_output_dict"
    /\ out' = call_helper([out EXCEPT !.hub_dict = [hub \in SeqToSet(H.hubs_list) |-> NoAttrs]],
                          1, "production")
    /\ pc' = "reset_index"
    /\ UNCHANGED <<H, g, m, sol, todo, pass>>

\* _create_hub_data, lines 122-123
HubDataResetIndex ==
    /\ pc = "reset_index"
    /\ out.table # "distribution"
    /\ LET made == reset_index(out.heap, out.df)
       IN  out' = [out EXCEPT !.index_column = out.heap[out.df].index[1],
                              !.heap = made.heap, !.df = made.df]
    /\ pc' = "select"
    /\ UNCHANGED <<H, g, m, sol, todo, pass>>

\* _create_hub_data, line 125
HubDataSelect ==
    /\ pc = "select"
    /\ LET hub == H.hubs_list[out.hub]
           made == getitem(out.heap, out.df,
                           series(out.heap, out.df,
                                  LAMBDA r : startswith(r[out.index_column], hub \o "_")))
       IN  out' = [out EXCEPT !.heap = made.heap, !.df = made.df]
    /\ pc' = "setitem"
    /\ UNCHANGED <<H, g, m, sol, todo, pass>>

\* _create_hub_data, lines 128-133: start is 1 for consumption (line 563)
\* and -1 for production and conversion
HubDataSetitem ==
    /\ pc = "setitem"
    /\ out' = [out EXCEPT !.heap =
                  setitem(out.heap, out.df, out.index_column,
                          series(out.heap, out.df,
                                 LAMBDA r : IF out.table = "consumption"
                                            THEN split_rest(r[out.index_column])
                                            ELSE split_last(r[out.index_column])))]
    /\ pc' = "set_index"
    /\ UNCHANGED <<H, g, m, sol, todo, pass>>

\* _create_hub_data, line 134
HubDataSetIndex ==
    /\ pc = "set_index"
    /\ LET made == set_index(out.heap, out.df, out.index_column)
       IN  out' = [out EXCEPT !.heap = made.heap, !.df = made.df]
    /\ pc' = "to_dict"
    /\ UNCHANGED <<H, g, m, sol, todo, pass>>

\* _create_hub_data, line 136, the assignment to hub_dict[hub] and the call
\* for the next table
HubDataToDict ==
    /\ pc = "to_dict"
    /\ index_is_unique(labels(out.heap[out.df]))
    /\ LET hub == H.hubs_list[out.hub]
           returned == frame_to_dict(out.heap[out.df])
       IN  out' = call_helper(
                     [out EXCEPT !.hub_dict[hub] = Update(@, out.table :> returned)],
                     out.hub, next_table(out.table))
    /\ pc' = "reset_index"
    /\ UNCHANGED <<H, g, m, sol, todo, pass>>

\* _create_hub_data, line 136: to_dict raises, and the exception leaves
\* create_output_dict
HubDataToDictRaises ==
    /\ pc = "to_dict"
    /\ ~index_is_unique(labels(out.heap[out.df]))
    /\ pc' = "error"
    /\ UNCHANGED <<H, g, m, sol, todo, pass, out>>

\* _create_hub_distribution_data, line 216
DistributionResetIndex ==
    /\ pc = "reset_index"
    /\ out.table = "distribution"
    /\ LET made == reset_index(out.heap, out.df)
       IN  out' = [out EXCEPT !.heap = made.heap, !.df = made.df]
    /\ pc' = "local"
    /\ UNCHANGED <<H, g, m, sol, todo, pass>>

\* _create_hub_distribution_data, lines 218-224
DistributionSelect ==
    /\ pc = "local"
    /\ out.local = 0
    /\ LET hub_string == H.hubs_list[out.hub] \o "_"
           arc_start == series(out.heap, out.df, LAMBDA r : names_hub(r.arc_start, hub_string))
           arc_end == series(out.heap, out.df, LAMBDA r : names_hub(r.arc_end, hub_string))
           local == getitem(out.heap, out.df,
                            [i \in DOMAIN arc_start |-> arc_start[i] /\ arc_end[i]])
           outgoing == getitem(local.heap, out.df,
                               [i \in DOMAIN arc_start |-> arc_start[i] /\ ~arc_end[i]])
           incoming == getitem(outgoing.heap, out.df,
                               [i \in DOMAIN arc_start |-> arc_end[i] /\ ~arc_start[i]])
       IN  out' = [out EXCEPT !.heap = incoming.heap, !.local = local.df,
                              !.outgoing = outgoing.df, !.incoming = incoming.df]
    /\ pc' = "local"
    /\ UNCHANGED <<H, g, m, sol, todo, pass>>

\* _create_hub_distribution_data, lines 226-231
DistributionLocal ==
    /\ pc = "local"
    /\ out.local # 0
    /\ LET hub_string == H.hubs_list[out.hub] \o "_"
           after_226 == setitem(out.heap, out.local, "arc_start",
                                series(out.heap, out.local,
                                       LAMBDA r : Remove(r.arc_start, hub_string)))
           after_227 == setitem(after_226, out.local, "arc_end",
                                series(after_226, out.local,
                                       LAMBDA r : Remove(r.arc_end, hub_string)))
           after_228 == setattr_index(after_227, out.local,
                                      series(after_227, out.local,
                                             LAMBDA r : r.arc_start \o "_TO_" \o r.arc_end))
           made == rename(after_228, out.local,
                          [arc_start |-> "source_class", arc_end |-> "destination_class"])
       IN  out' = [out EXCEPT !.heap = made.heap, !.local = made.df]
    /\ pc' = "outgoing"
    /\ UNCHANGED <<H, g, m, sol, todo, pass>>

\* _create_hub_distribution_data, lines 247 and 248: _out_in_add_info
\* (lines 233-245) on outgoing, then on incoming
OutInAddInfo ==
    /\ pc \in {"outgoing", "incoming"}
    /\ LET hub_string == H.hubs_list[out.hub] \o "_"
           df == out[pc]
           after_236 == setitem(out.heap, df, "source",
                                series(out.heap, df, LAMBDA r : split_first(r.arc_start)))
           after_237 == setitem(after_236, df, "arc_start",
                                series(after_236, df, LAMBDA r : Remove(r.arc_start, hub_string)))
           after_238 == setattr_index(after_237, df,
                                      series(after_237, df,
                                             LAMBDA r : r.arc_start \o "_TO_" \o r.arc_end))
           after_239 == setitem(after_238, df, "destination",
                                series(after_238, df, LAMBDA r : split_first(r.arc_end)))
           after_240 == setitem(after_239, df, "destination_class",
                                series(after_239, df, LAMBDA r : split_rest(r.arc_end)))
           renamed == rename(after_240, df, [arc_start |-> "source_class"])
           made == getitem(renamed.heap, renamed.df,
                           series(renamed.heap, renamed.df, LAMBDA r : r.dist_h > 0))
       IN  out' = [out EXCEPT !.heap = made.heap, ![pc] = made.df]
    /\ pc' = IF pc = "outgoing" THEN "incoming" ELSE "return"
    /\ UNCHANGED <<H, g, m, sol, todo, pass>>

\* _create_hub_distribution_data, lines 250-254, and the assignment to
\* hub_dict[hub]: a to_dict that raises leaves create_output_dict; else the
\* loop goes to the next hub, or is over
DistributionToDict ==
    /\ pc = "return"
    /\ out.table = "distribution"
    /\ LET hub == H.hubs_list[out.hub]
           frames == [local |-> out.heap[out.local], outgoing |-> out.heap[out.outgoing],
                      incoming |-> out.heap[out.incoming]]
           raises == \E k \in DOMAIN frames : ~index_is_unique(labels(frames[k]))
           returned == [k \in DOMAIN frames |-> frame_to_dict(frames[k])]
           assigned == [out EXCEPT !.hub_dict[hub] = Update(@, out.table :> returned)]
       IN  IF raises THEN pc' = "error" /\ out' = out
           ELSE IF out.hub < Len(H.hubs_list)
           THEN pc' = "reset_index" /\ out' = call_helper(assigned, out.hub + 1, "production")
           ELSE pc' = "return" /\ out' = [release(assigned) EXCEPT !.hub = 0, !.table = ""]
    /\ UNCHANGED <<H, g, m, sol, todo, pass>>

\* create_output_dict, line 568: the structure goes to the caller, who calls
\* create_output_dict on the same H once more
ReturnHubDict ==
    /\ pc = "return"
    /\ out.table = ""
    /\ out' = [out EXCEPT !.returned = Append(@, out.hub_dict), !.hub_dict = NoAttrs]
    /\ pc' = IF Len(out.returned) = 0 THEN "create_output_dict" ELSE "returned"
    /\ UNCHANGED <<H, g, m, sol, todo, pass>>

NextDecompose ==
    \/ EnterCreateOutputDict
    \/ HubDataResetIndex
    \/ HubDataSelect
    \/ HubDataSetitem
    \/ HubDataSetIndex
    \/ HubDataToDict
    \/ HubDataToDictRaises
    \/ DistributionResetIndex
    \/ DistributionSelect
    \/ DistributionLocal
    \/ OutInAddInfo
    \/ DistributionToDict
    \/ ReturnHubDict

SpecDecompose == InitDecompose /\ [][NextDecompose]_vars

----------------------------------------------------------------------------
(* Properties of the output tables                                         *)

\* create_outputs_dfs has returned
DfsMade == pc \notin {"create_outputs_dfs"}

PriceDemandTypes == {"priceFuelStation", "priceLowPurity", "priceHighPurity"}

\* the rows of table that are probes of the hub ph for the demand type
\* (ph_priceLowPurity_1, ...)
ProbesOf(table, ph, demand_type) ==
    SelectSeq(table, LAMBDA r : startswith(r.consumer, ph \o "_" \o demand_type \o "_"))

\* the probes of ph for the demand type that consume the probe demand
BuyingProbes(ph, demand_type) ==
    SelectSeq(ProbesOf(sol.consumption, ph, demand_type),
              LAMBDA r : isclose(r.cons_h, H.price_demand))

\* C18 as stated: for every tracked hub and demand type, price discovery
\* reports nothing when no probe of the hub for the type consumes the probe
\* demand, and else exactly one probe of the hub for the type, whose price is
\* the least price of those that do.
C18_AsStated ==
    (DfsMade /\ H.find_prices) =>
        \A i \in 1..Len(H.price_hubs) : \A demand_type \in PriceDemandTypes :
            LET own == BuyingProbes(H.price_hubs[i], demand_type)
                reported == ProbesOf(out.price_hub_min, H.price_hubs[i], demand_type)
            IN  IF own = <<>> THEN reported = <<>>
                ELSE /\ Len(reported) = 1
                     /\ \A k \in 1..Len(own) : reported[1].cons_price <= own[k].cons_price
                     /\ \E k \in 1..Len(own) : reported[1] = own[k]

\* C19 as stated: every row of the reported production, conversion,
\* consumption and distribution table has prod_capacity, conv_capacity, cons_h
\* and dist_h over the tolerance.
C19_AsStated ==
    DfsMade =>
        /\ \A i \in 1..Len(out.dfs.production) : out.dfs.production[i].prod_capacity > tol
        /\ \A i \in 1..Len(out.dfs.conversion) : out.dfs.conversion[i].conv_capacity > tol
        /\ \A i \in 1..Len(out.dfs.consumption) : out.dfs.consumption[i].cons_h > tol
        /\ \A i \in 1..Len(out.dfs.distribution) : out.dfs.distribution[i].dist_h > tol

\* C19: every row of the reported production, conversion and distribution
\* table has its key quantity over the tolerance, and every row of the
\* reported consumption table has cons_h over the tolerance or is a probe put
\* back by price discovery, whose cons_h is the probe demand.
C19_ToleranceFilter ==
    DfsMade =>
        /\ \A i \in 1..Len(out.dfs.production) : out.dfs.production[i].prod_capacity > tol
        /\ \A i \in 1..Len(out.dfs.conversion) : out.dfs.conversion[i].conv_capacity > tol
        /\ \A i \in 1..Len(out.dfs.distribution) : out.dfs.distribution[i].dist_h > tol
        /\ \A i \in 1..Len(out.dfs.consumption) :
              \/ out.dfs.consumption[i].cons_h > tol
              \/ /\ H.find_prices
                 /\ out.dfs.consumption[i] \in SeqToSet(out.price_hub_min)
                 /\ isclose(out.dfs.consumption[i].cons_h, H.price_demand)

\* rows at the tolerance were dropped from every table, rows over it were
\* kept, and a probe under the tolerance was put back
C19_Witness ==
    /\ DfsMade
    /\ \E i \in 1..Len(sol.production) : sol.production[i].prod_capacity = tol
    /\ \E i \in 1..Len(sol.distribution) : sol.distribution[i].dist_h = tol
    /\ Len(out.dfs.production) = 2
    /\ Len(out.dfs.conversion) = 1
    /\ Len(out.dfs.distribution) = 2
    /\ \E i \in 1..Len(out.dfs.consumption) : out.dfs.consumption[i].cons_h <= tol

\* create_output_dict has returned
DictMade == pc \in {"write_output_dict", "create_plot", "outputs"}

\* C20 as stated: for every hub h, a row of the reported distribution table
\* is in local of h iff both its endpoints start with the name of h and "_",
\* in outgoing iff only its start does, in incoming iff only its end does.
C20_AsStated ==
    DictMade =>
        \A h \in SeqToSet(H.hubs_list) : \A i \in 1..Len(out.dfs.distribution) :
            LET r == out.dfs.distribution[i]
                hub_string == h \o "_"
                at_start == startswith(r.arc_start, hub_string)
                at_end == startswith(r.arc_end, hub_string)
                of_hub == out.hub_dict[h].distribution
            IN  /\ local_key(r, hub_string) \in DOMAIN of_hub.local <=> (at_start /\ at_end)
                /\ out_in_key(r, hub_string) \in DOMAIN of_hub.outgoing <=> (at_start /\ ~at_end)
                /\ out_in_key(r, hub_string) \in DOMAIN of_hub.incoming <=> (at_end /\ ~at_start)

\* the sum of dist_h over the entries of a dict of distribution rows
TotalFlow(d) == SumOver([k \in DOMAIN d |-> d[k].dist_h], DOMAIN d)

\* the sum of dist_h over the rows of the reported distribution table that
\* have an endpoint at hub h
HubFlow(h) ==
    LET rows == SelectSeq(out.dfs.distribution,
                          LAMBDA r : startswith(r.arc_start, h \o "_") \/ startswith(r.arc_end, h \o "_"))
    IN  SumOver([i \in 1..Len(rows) |-> rows[i].dist_h], 1..Len(rows))

\* C21 as stated: for every hub, dist_h summed over the entries of its local,
\* incoming and outgoing subsets is dist_h summed over the rows of the
\* reported distribution table that have an endpoint at the hub.
C21_AsStated ==
    DictMade =>
        \A h \in SeqToSet(H.hubs_list) :
            TotalFlow(out.hub_dict[h].distribution.local)
            + TotalFlow(out.hub_dict[h].distribution.incoming)
            + TotalFlow(out.hub_dict[h].distribution.outgoing) = HubFlow(h)

\* create_output_dict has returned twice
ReturnedTwice == pc = "returned" /\ Len(out.returned) = 2

\* C22: in every state of two calls of create_output_dict on the same H,
\* each frame of H.output_dfs has the rows and the index that
\* create_outputs_dfs gave it, and the structure the second call returns is
\* the structure the first call returned.
C22_Repeatable ==
    /\ \A t \in DOMAIN out.output_dfs :
          out.heap[out.output_dfs[t]]
              = output_frames(create_outputs_dfs(H, sol))[out.output_dfs[t]]
    /\ ReturnedTwice => out.returned[2] = out.returned[1]

\* both calls returned, each of the four tables has a row of the first hub,
\* and the distribution table a row between the hubs
C22_Witness ==
    /\ ReturnedTwice
    /\ \A t \in {"production", "conversion", "consumption"} :
           DOMAIN out.returned[2][H.hubs_list[1]][t] # {}
    /\ DOMAIN out.returned[2][H.hubs_list[1]].distribution.local # {}
    /\ DOMAIN out.returned[2][H.hubs_list[1]].distribution.outgoing # {}

\* the structure create_output_dict returns statement by statement is the
\* one the operator create_output_dict gives for the same tables
DecomposeAgrees ==
    \A i \in 1..Len(out.returned) :
        out.returned[i] = create_output_dict(H, create_outputs_dfs(H, sol))

\* the row of a producer in the joined production table of the solved model
SolvedRow(producer) ==
    LET i == CHOOSE i \in 1..Len(sol.production) : sol.production[i].producer = producer
    IN  sol.production[i]

\* the six canonical columns of a reported row, written from technology
\* ccs_v for the producer whose row in the joined table is o
FromTechnology(r, o, ccs_v) ==
    LET ccs == "ccs" \o str(ccs_v)
        ccs_percent == H[ccs \o "_percent_co2_captured"]
    IN  /\ r.prod_checs = o[ccs \o "_checs"]
        /\ r.ccs_capture_rate = ccs_percent
        /\ r.chec_per_ton = (IF H.fractional_chec THEN ccs_percent ELSE PctScale)
        /\ r.h2_tax_credit = H[ccs \o "_h2_tax_credit"] * o.prod_h
        /\ r.co2_emissions_rate * PctScale = o.co2_emissions_rate * (PctScale - ccs_percent)
        /\ r.ccs_retrofit_variable_costs * PctScale =
               o.prod_h * o.co2_emissions_rate * ccs_percent * H[ccs \o "_variable_usdPerTon"]

\* the six canonical columns of a reported row keep the values of the
\* producer's row o in the joined table, a cell without value reading 0
FromProducer(r, o) ==
    /\ r.prod_checs = replace_na(o.prod_checs)
    /\ r.ccs_capture_rate = replace_na(o.ccs_capture_rate)
    /\ r.chec_per_ton = replace_na(o.chec_per_ton)
    /\ r.h2_tax_credit = replace_na(o.h2_tax_credit) * o.prod_h
    /\ r.co2_emissions_rate = o.co2_emissions_rate
    /\ r.ccs_retrofit_variable_costs = 0

\* C23: every reported producer whose CCS technology k is built has its
\* credits produced, capture rate, credit rate, H2 tax credit, residual
\* emission rate and retrofit variable cost written from technology k, a
\* producer with no technology built keeps the values of its own row, and
\* processing technology 2 before technology 1 gives the same table.
C23_Retrofit ==
    DfsMade =>
        /\ \A i \in 1..Len(out.dfs.production) :
              LET r == out.dfs.production[i]
                  o == SolvedRow(r.producer)
              IN  /\ \A ccs_v \in 1..2 : o["ccs" \o str(ccs_v) \o "_built"] = 1 => FromTechnology(r, o, ccs_v)
                  /\ (o.ccs1_built # 1 /\ o.ccs2_built # 1) => FromProducer(r, o)
        /\ retrofit_in_order(H, production_filtered(sol), <<2, 1>>) = production_retrofitted(H, sol)

\* an existing producer retrofitted with technology 1 is reported next to a
\* new producer, the credit rate being the captured fraction
C23_Witness ==
    /\ DfsMade
    /\ H.fractional_chec
    /\ \E i, j \in 1..Len(out.dfs.production) :
          /\ SolvedRow(out.dfs.production[i].producer).ccs1_built = 1
          /\ out.dfs.production[i].ccs_capture_rate = H.ccs1_percent_co2_captured
          /\ SolvedRow(out.dfs.production[j].producer).ccs1_built = na

\* main has ended with an exception
Failed == pc = "error"

\* C24 as stated: when a step of the decomposition fails, no output table
\* file and no JSON document has been written when the run ends.
C24_AsStated == Failed => out.files = {}

\* C25 as stated: no step of the network synthesis changes the input tables
\* and settings H it was given.
C25_AsStated == [][H' = H]_vars

\* C30 as stated: with price tracking on, every row of a demand-sector
\* consumer and every row of an arc whose solved quantity is over the
\* tolerance is in the reported tables.
C30_AsStated ==
    (DfsMade /\ H.find_prices) =>
        /\ \A i \in 1..Len(sol.consumption) :
              (Contains("demandSector", sol.consumption[i].consumer) /\ sol.consumption[i].cons_h > tol)
                  => \E j \in 1..Len(out.dfs.consumption) : out.dfs.consumption[j] = sol.consumption[i]
        /\ \A i \in 1..Len(sol.distribution) :
              sol.distribution[i].dist_h > tol
                  => \E j \in 1..Len(out.dfs.distribution) : out.dfs.distribution[j] = sol.distribution[i]

\* the converter nodes of the network
ConverterNodes == {n \in DOMAIN g.ndata : startswith(Get(g.ndata[n], "class", ""), "converter_")}

\* the row of H.converters of a converter node, and the row of H.nodes of its hub
RuleOf(n) == SelectSeq(H.converters, LAMBDA r : r.converter = g.ndata[n].converter)[1]
HubOf(n) == SelectSeq(H.nodes, LAMBDA r : r.node = g.ndata[n].hub_name)[1]

\* C28 as stated: in the returned network every converter node has the
\* capital coefficient of its row of the converter table times the capital
\* multiplier of its hub, and the electricity coefficient of the row times
\* the electricity multiplier of the hub (multipliers in hundredths).
C28_AsStated ==
    Returned =>
        \A n \in ConverterNodes :
            /\ g.ndata[n].capital_usd_coefficient * PctScale
                   = RuleOf(n).capital_usd_coefficient * HubOf(n).capital_pm
            /\ g.ndata[n].kWh_coefficient * PctScale = RuleOf(n).kWh_coefficient * HubOf(n).e_pm

\* C29: in every assignment the solver returns, the hydrogen produced by all
\* the producers is the hydrogen consumed by all the consumers (the
\* demand-sector nodes and the price probes).
C29_TotalBalance ==
    Solved => SumOver(sol.prod_h, m.producer_set) = SumOver(sol.cons_h, m.consumer_set)

\* hydrogen is produced and reaches a consumer through a node that is
\* neither a producer nor a consumer
C29_Witness ==
    /\ Solved
    /\ SumOver(sol.prod_h, m.producer_set) > 0
    /\ \E n \in m.node_set \ (m.producer_set \cup m.consumer_set) : Inflow(n) > 0

----------------------------------------------------------------------------
(* monte_carlo.py: the input snapshots of the trials.  Objects live in a    *)
(* heap, a sequence of objects addressed by their position: a dict holds    *)
(* references to other objects and plain values, a table holds a cell.      *)

\* metadata number_of_trials
MaxTrials == 2

\* the values np.random draws for a trial
Draws == {1, 2}

\* an object: the objects it refers to, by key, and its plain values, by key
object(refs, vals) == [refs |-> refs, vals |-> vals]

\* the objects reachable from the object id (a dict of tables is two levels deep)
Reach(heap, id) ==
    LET children(S) == S \cup UNION {{heap[x].refs[k] : k \in DOMAIN heap[x].refs} : x \in S}
    IN  children(children({id}))

\* the position of r among the objects R
rank(R, r) == Cardinality({x \in R : x <= r})

\* copy.deepcopy(obj): every object reachable from id is written anew at the
\* end of the heap, the references among the copies following the originals
deepcopy(heap, id) ==
    LET R == Reach(heap, id)
        at(i) == CHOOSE r \in R : rank(R, r) = i
        moved(r) == Len(heap) + rank(R, r)
    IN  [heap |-> heap \o [i \in 1..Cardinality(R) |->
                     object([k \in DOMAIN heap[at(i)].refs |-> moved(heap[at(i)].refs[k])],
                            heap[at(i)].vals)],
         id |-> moved(id)]

\* MonteCarloTrial.update_file(files): files[self.file].at[row, column] = value
\* for a table, update_nested_dict_with_slash for the settings
update_file(heap, files, file, value) ==
    IF file = "settings" THEN [heap EXCEPT ![files].vals.carbon_price = value]
    ELSE [heap EXCEPT ![heap[files].refs[file]].vals.cell = value]

\* generate_monte_carlo_trial(files, mc_distributions, n)
generate_monte_carlo_trial(heap, files, value) ==
    LET copied == deepcopy(heap, files)
    IN  [heap |-> update_file(copied.heap, copied.id, "production", value), id |-> copied.id]

\* generate_monte_carlo_trial_settings(settings, distrs, n)
generate_monte_carlo_trial_settings(heap, settings, value) ==
    LET copied == deepcopy(heap, settings)
    IN  [heap |-> update_file(copied.heap, copied.id, "settings", value), id |-> copied.id]

\* the base inputs of monte_carlo: the table production.csv (object 1) in the
\* dict files (object 2), and the dict settings (object 3)
BaseHeap ==
    << object(<< >>, [cell |-> 0]),
       object([production |-> 1], << >>),
       object(<< >>, [carbon_price |-> 0]) >>

\* the Monte-Carlo file: the jobs, whether a setting is among the
\* distributions, and the values drawn for each trial
MonteCarloFiles ==
    {[number_of_trials |-> MaxTrials, number_of_jobs |-> jobs, settings_distributed |-> sd,
      drawn |-> drawn, drawn_settings |-> drawn_settings] :
        jobs \in 1..2, sd \in BOOLEAN, drawn \in [1..MaxTrials -> Draws],
        drawn_settings \in [1..MaxTrials -> Draws]}

InitMonteCarlo ==
    /\ H \in MonteCarloFiles
    /\ out = [heap |-> BaseHeap, files |-> 2, settings |-> 3, trials |-> <<>>,
              settings_trials |-> <<>>, handed |-> << >>, seen |-> << >>]
    /\ g = EmptyGraph
    /\ m = NoAttrs
    /\ sol = NoAttrs
    /\ todo = <<>>
    /\ pass = NoAttrs
    /\ pc = "trials"

\* monte_carlo, lines 188-191: the next element of trials
GenerateTrial ==
    /\ pc = "trials"
    /\ LET n == Len(out.trials) + 1
           trial == generate_monte_carlo_trial(out.heap, out.files, H.drawn[n])
       IN  /\ out' = [out EXCEPT !.heap = trial.heap, !.trials = Append(@, trial.id)]
           /\ pc' = IF n = H.number_of_trials THEN "settings_trials" ELSE "trials"
    /\ UNCHANGED <<H, g, m, sol, todo, pass>>

\* monte_carlo, lines 193-208: the next element of settings_trials, a
\* setting being among the distributions
GenerateTrialSettings ==
    /\ pc = "settings_trials"
    /\ H.settings_distributed
    /\ LET n == Len(out.settings_trials) + 1
           trial == generate_monte_carlo_trial_settings(out.heap, out.settings, H.drawn_settings[n])
       IN  /\ out' = [out EXCEPT !.heap = trial.heap, !.settings_trials = Append(@, trial.id)]
           /\ pc' = IF n = H.number_of_trials THEN "run" ELSE "settings_trials"
    /\ UNCHANGED <<H, g, m, sol, todo, pass>>

\* monte_carlo, lines 209-210: settings_trials = [settings] * number_of_trials
RepeatSettings ==
    /\ pc = "settings_trials"
    /\ ~H.settings_distributed
    /\ out' = [out EXCEPT !.settings_trials = [n \in 1..H.number_of_trials |-> out.settings]]
    /\ pc' = "run"
    /\ UNCHANGED <<H, g, m, sol, todo, pass>>

\* the trials handed to a worker and not yet run
Running == {n \in DOMAIN out.handed : n \notin DOMAIN out.seen}

\* monte_carlo, lines 218-227: the next trial is handed to a worker, in the
\* process of the caller when there is one job, pickled into the process of
\* the worker otherwise
HandTrial ==
    /\ pc = "run"
    /\ Cardinality(DOMAIN out.handed) < H.number_of_trials
    /\ Cardinality(Running) < H.number_of_jobs
    /\ LET n == Cardinality(DOMAIN out.handed) + 1
           trial == deepcopy(out.heap, out.trials[n])
           settings == deepcopy(trial.heap, out.settings_trials[n])
       IN  out' = IF H.number_of_jobs = 1
                  THEN [out EXCEPT !.handed = (n :> [trial |-> out.trials[n],
                                                     settings |-> out.settings_trials[n]]) @@ @]
                  ELSE [out EXCEPT !.heap = settings.heap,
                                   !.handed = (n :> [trial |-> trial.id,
                                                     settings |-> settings.id]) @@ @]
    /\ UNCHANGED <<H, g, m, sol, todo, pass, pc>>

\* run_model, lines 85-92: HydrogenData reads the tables and the settings it
\* was handed, and after the model is solved H.add_value_to_all_dfs, which
\* HydrogenData does not define, raises AttributeError: with one job in the
\* process of the caller, whom the exception leaves at once, else in the
\* process of the worker
RunModel ==
    /\ pc = "run"
    /\ \E n \in Running :
          out' = [out EXCEPT !.seen =
                      (n :> [cell |-> out.heap[out.heap[out.handed[n].trial].refs.production].vals.cell,
                             carbon_price |-> out.heap[out.handed[n].settings].vals.carbon_price])
                      @@ @]
    /\ pc' = IF H.number_of_jobs = 1 THEN "error" ELSE "run"
    /\ UNCHANGED <<H, g, m, sol, todo, pass>>

\* monte_carlo, lines 218-227, several jobs: Parallel raises the exception
\* of a worker in the process of the caller; upload_to_sql (line 230) is
\* not reached
ParallelRaises ==
    /\ pc = "run"
    /\ H.number_of_jobs > 1
    /\ DOMAIN out.seen # {}
    /\ pc' = "error"
    /\ UNCHANGED <<H, g, m, sol, todo, pass, out>>

NextMonteCarlo ==
    \/ GenerateTrial \/ GenerateTrialSettings \/ RepeatSettings
    \/ HandTrial \/ RunModel \/ ParallelRaises

SpecMonteCarlo == InitMonteCarlo /\ [][NextMonteCarlo]_vars

\* the objects of the snapshot of trial n: its tables and its settings
Snapshot(n) == Reach(out.heap, out.trials[n]) \cup Reach(out.heap, out.settings_trials[n])

\* the objects of the base inputs
BaseInputs == Reach(out.heap, out.files) \cup Reach(out.heap, out.settings)

\* C26 as stated: once the snapshots are made, the snapshot of a trial has no
\* object in common with the base inputs or with the snapshot of another trial.
C26_AsStated ==
    pc \in {"run", "error"} =>
        \A n \in 1..H.number_of_trials :
            /\ Snapshot(n) \cap BaseInputs = {}
            /\ \A k \in 1..H.number_of_trials : k # n => Snapshot(n) \cap Snapshot(k) = {}

====
